---- MODULE Spec2Model ----
(***************************************************************************)
(* A model of the mica world/command engine (src/mica/core.py and          *)
(* src/mica/commands.py): the store with its commit/rollback discipline,   *)
(* the Thing and Account accessors, the per-link session state machine,    *)
(* the command dispatcher, call_command and the command handlers.          *)
(*                                                                         *)
(* Python strings are sequences of one-character strings, so that slicing, *)
(* strip(), split() and the `in' substring test are computed as Python     *)
(* computes them.  The only whitespace character of the model's alphabet   *)
(* is the space.                                                           *)
(***************************************************************************)
EXTENDS Integers, Sequences, FiniteSets, TLC

VARIABLES
    db,                 \* the rows the sqlite3 connection currently sees
    saved,              \* the rows as of the last commit
    intx,               \* sqlite3's in_transaction: a write is pending
    client_states,      \* Mica.client_states: link -> character id, -1 before login
    connected_things,   \* Mica.connected_things: character id -> link
    commands,           \* Mica._commands, in registration order
    prefix_commands,    \* Mica._prefix_commands, in registration order
    login_commands,     \* Mica.login_commands: the lines run at each login
    motd,               \* Mica.motd: <<>> is None, <<text>> a message
    out,                \* link -> what the last event wrote to it
    tr,                 \* what the last event did: calls, returns, writes, commits
    ev,                 \* the last event delivered by the network code
    pre,                \* the store and the session tables before that event
    gone                \* links already passed to on_disconnection

vars == <<db, saved, intx, client_states, connected_things, commands,
          prefix_commands, login_commands, motd, out, tr, ev, pre, gone>>

-----------------------------------------------------------------------------
(* Bounds of the model.                                                    *)

NumLinks == 2

Links == 1..NumLinks

-----------------------------------------------------------------------------
(* Character sequences used as names, command words and input lines.       *)

SP == <<" ">>
s_me == <<"m", "e">>
s_here == <<"h", "e", "r", "e">>
s_look == <<"l", "o", "o", "k">>
s_l == <<"l">>
s_say == <<"s", "a", "y">>
s_pose == <<"p", "o", "s", "e">>
s_i == <<"i">>
s_inventory == <<"i", "n", "v", "e", "n", "t", "o", "r", "y">>
s_jump == <<"j", "u", "m", "p">>
s_make == <<"m", "a", "k", "e">>
s_build == <<"b", "u", "i", "l", "d">>
s_open == <<"o", "p", "e", "n">>
s_set == <<"s", "e", "t">>
s_ex == <<"e", "x">>
s_examine == <<"e", "x", "a", "m", "i", "n", "e">>
s_crash == <<"c", "r", "a", "s", "h">>
s_connect == <<"c", "o", "n", "n", "e", "c", "t">>
s_One == <<"O", "n", "e">>
s_Nexus == <<"N", "e", "x", "u", "s">>
s_Alice == <<"A", "l", "i", "c", "e">>
s_Hall == <<"H", "a", "l", "l">>
s_north == <<"n", "o", "r", "t", "h">>
s_nort == <<"n", "o", "r", "t">>
s_gate == <<"g", "a", "t", "e">>
s_potrzebie == <<"p", "o", "t", "r", "z", "e", "b", "i", "e">>
s_hunter2 == <<"h", "u", "n", "t", "e", "r", "2">>
s_wrong == <<"w", "r", "o", "n", "g">>
s_Bob == <<"B", "o", "b">>
s_desc == <<"d", "e", "s", "c">>
s_privilege_level == <<"p", "r", "i", "v", "i", "l", "e", "g", "e", "_", "l", "e", "v", "e", "l">>
s_hello == <<"h", "e", "l", "l", "o">>
s_probe == <<"p", "r", "o", "b", "e">>
s_mark == <<"m", "a", "r", "k">>
s_home == <<"h", "o", "m", "e">>

-----------------------------------------------------------------------------
(* Python string operations.                                               *)

Min(a, b) == IF a < b THEN a ELSE b

\* s[:n] for n >= 0
Take(s, n) == SubSeq(s, 1, Min(n, Len(s)))

\* s[n:] for n >= 0
Drop(s, n) == SubSeq(s, n + 1, Len(s))

RECURSIVE lstrip(_)
lstrip(s) == IF s # <<>> /\ Head(s) = " " THEN lstrip(Tail(s)) ELSE s

RECURSIVE rstrip(_)
rstrip(s) == IF s # <<>> /\ s[Len(s)] = " " THEN rstrip(SubSeq(s, 1, Len(s) - 1)) ELSE s

\* str.strip()
strip(s) == rstrip(lstrip(s))

\* sub in s
Contains(sub, s) ==
    \E k \in 0..(Len(s) - Len(sub)) : SubSeq(s, k + 1, k + Len(sub)) = sub

\* the index of the first occurrence of the character c in s, 0 if there is none
RECURSIVE IndexFrom(_, _, _)
IndexFrom(s, c, k) ==
    IF k > Len(s) THEN 0
    ELSE IF s[k] = c THEN k
    ELSE IndexFrom(s, c, k + 1)

IndexOf(s, c) == IndexFrom(s, c, 1)

\* str.split(' '): every single space separates two fields
RECURSIVE split(_)
split(s) ==
    LET k == IndexOf(s, " ") IN
    IF k = 0 THEN <<s>>
    ELSE <<SubSeq(s, 1, k - 1)>> \o split(Drop(s, k))

Digits == <<"0", "1", "2", "3", "4", "5", "6", "7", "8", "9">>

IsDigit(c) == \E d \in 1..10 : Digits[d] = c

DigitVal(c) == (CHOOSE d \in 1..10 : Digits[d] = c) - 1

\* str(n), "%d" % n and repr(n) of an int n >= 0
RECURSIVE IntToStr(_)
IntToStr(n) ==
    IF n < 10 THEN <<Digits[n + 1]>>
    ELSE IntToStr(n \div 10) \o <<Digits[(n % 10) + 1]>>

\* int(s) succeeds on a non-empty run of digits; anything else the model's
\* alphabet can spell raises ValueError
IsInt(s) == s # <<>> /\ \A k \in 1..Len(s) : IsDigit(s[k])

RECURSIVE StrToInt(_)
StrToInt(s) ==
    IF s = <<>> THEN 0
    ELSE 10 * StrToInt(SubSeq(s, 1, Len(s) - 1)) + DigitVal(s[Len(s)])

-----------------------------------------------------------------------------
(* Python values that a property read can yield: get(key, -1) returns      *)
(* either the int default or the stored text.                              *)

PyInt(n) == [t |-> "int", i |-> n, s |-> <<>>]
PyStr(x) == [t |-> "str", i |-> 0, s |-> x]

\* Python None and SQL NULL; row ids start at 1
None == 0

\* the `val TEXT' column has TEXT affinity: an int bound to it is stored as
\* its decimal text
SqlText(v) == IF v.t = "int" THEN IntToStr(v.i) ELSE v.s

-----------------------------------------------------------------------------
(* Exceptions and results.  An operation that can raise returns a record   *)
(* [m, exc, val]: the machine after it, the exception raised (NoExc for a  *)
(* normal return) and the value returned.                                  *)

NoExc == [type |-> "none", args |-> <<>>]
Raise(type, args) == [type |-> type, args |-> args]

Ok(m, v) == [m |-> m, exc |-> NoExc, val |-> v]
Fail(m, e) == [m |-> m, exc |-> e, val |-> None]

\* texts[key] % args, not yet terminated by line()
Text(key, args) == [key |-> key, args |-> args, eol |-> ""]

\* Mica.line
line(text) == [text EXCEPT !.eol = "\r\n"]

\* link.write(data)
write(m, link, data) == [m EXCEPT !.out[link] = Append(@, data)]

Note(m, op, h, text, res) ==
    [m EXCEPT !.tr = Append(@, [op |-> op, h |-> h, text |-> text, res |-> res])]

\* K applied to the value v, which is computed once
With(v, K(_)) == K(v)

\* the rest K of an operation after a step r that can raise: an exception
\* of r propagates
Then(r, K(_)) == IF r.exc # NoExc THEN r ELSE K(r)

-----------------------------------------------------------------------------
(* The store.  db.things, db.accounts and db.properties are the tables in  *)
(* row order; the row id of a thing or an account is its index (INTEGER    *)
(* PRIMARY KEY, and no row is ever deleted from these two tables).         *)
(* Python's sqlite3 opens a transaction before the first INSERT, UPDATE or *)
(* DELETE; commit() makes the pending rows durable and rollback() returns  *)
(* to the rows of the last commit.                                         *)

\* Mica._calldb with an INSERT, UPDATE or DELETE statement
_calldb(m, table, newdb) ==
    Note([m EXCEPT !.db = newdb, !.intx = TRUE], "write", table, <<>>, "")

\* Mica._commitdb / db.commit()
_commitdb(m) ==
    Note([m EXCEPT !.saved = m.db, !.intx = FALSE], "commit", "", <<>>, "")

\* a rollback that discards the committed properties with the pending writes
rollback_to_empty(m) ==
    Note([m EXCEPT !.db = [m.saved EXCEPT !.properties = <<>>], !.intx = FALSE],
         "rollback", "", <<>>, "")

\* db.rollback()
rollback(m) ==
    Note([m EXCEPT !.db = m.saved, !.intx = FALSE], "rollback", "", <<>>, "")

\* Mica.get_thing: a Thing handle is the id, re-verified at fetch time
get_thing(m, id) == IF id \in DOMAIN m.db.things THEN id ELSE None

\* Mica.get_account
get_account(m, id) == IF id \in DOMAIN m.db.accounts THEN id ELSE None

\* the rows of SELECT ... FROM properties WHERE object_id=? AND name=?
PropRows(m, t, key) ==
    {k \in DOMAIN m.db.properties :
        m.db.properties[k].object_id = t /\ m.db.properties[k].name = key}

\* Thing.__getitem__
Thing_getitem(m, t, key) ==
    IF PropRows(m, t, key) = {} THEN Fail(m, Raise("KeyError", <<>>))
    ELSE Ok(m, PyStr(m.db.properties[CHOOSE k \in PropRows(m, t, key) : TRUE].val))

\* Thing.__setitem__: INSERT ... ON CONFLICT(object_id,name) DO UPDATE
Thing_setitem(m, t, key, value) ==
    LET rows == m.db.properties
        hit == PropRows(m, t, key)
        new == IF hit = {}
               THEN Append(rows, [object_id |-> t, name |-> key, val |-> SqlText(value)])
               ELSE [k \in DOMAIN rows |->
                        IF k \in hit THEN [rows[k] EXCEPT !.val = SqlText(value)]
                        ELSE rows[k]]
    IN _calldb(m, "properties", [m.db EXCEPT !.properties = new])

\* Thing.get
Thing_get(m, t, key, default) ==
    IF Thing_getitem(m, t, key).exc.type = "KeyError" THEN default
    ELSE Thing_getitem(m, t, key).val

\* Thing.__delitem__
Thing_delitem(m, t, key) ==
    IF PropRows(m, t, key) # {}
    THEN Ok(_calldb(m, "properties",
                [m.db EXCEPT !.properties =
                    SelectSeq(m.db.properties,
                              LAMBDA r : ~(r.object_id = t /\ r.name = key))]), None)
    ELSE Fail(m, Raise("KeyError", <<>>))

\* Thing.items
Thing_items(m, t) == SelectSeq(m.db.properties, LAMBDA r : r.object_id = t)

\* Thing.name
Thing_name(m, t) == m.db.things[t].name

\* Thing.display_name: "%s [%d]" % (name, id)
display_name(m, t) == Thing_name(m, t) \o <<" ", "[">> \o IntToStr(t) \o <<"]">>

\* Thing.is_character
is_character(m, t) == \E a \in DOMAIN m.db.accounts : m.db.accounts[a].character_id = t

\* Account.__init__(name=...) behind Mica.find_account: the account whose
\* character Thing has this name, None when there is none; a second
\* character of that name makes _one_from_db raise TooManyResultsException,
\* which find_account does not catch
find_account(m, name) ==
    LET chars == {t \in DOMAIN m.db.things :
                    m.db.things[t].name = name /\ is_character(m, t)}
        accts == {a \in DOMAIN m.db.accounts : m.db.accounts[a].character_id \in chars}
    IN IF chars = {} THEN Ok(m, None)
       ELSE IF Cardinality(chars) > 1 \/ Cardinality(accts) > 1
            THEN Fail(m, Raise("TooManyResultsException", <<>>))
       ELSE Ok(m, CHOOSE a \in accts : TRUE)

\* a rename that looks for no account of the new name
set_name_unchecked(m, t, newname) ==
    Ok(_calldb(m, "things", [m.db EXCEPT !.things[t].name = newname]), None)

\* Thing.set_name
set_name(m, t, newname) ==
    Then(IF is_character(m, t) THEN find_account(m, newname) ELSE Ok(m, None),
         LAMBDA fa :
            IF fa.val # None THEN Fail(m, Raise("AccountNamingException", <<>>))
            ELSE Ok(_calldb(m, "things", [m.db EXCEPT !.things[t].name = newname]), None))

\* Thing.destination
destination(m, t) ==
    IF m.db.things[t].passage_to # None
    THEN get_thing(m, m.db.things[t].passage_to)
    ELSE None

\* Thing.set_destination
set_destination(m, t, new_dest) ==
    _calldb(m, "things", [m.db EXCEPT !.things[t].passage_to = new_dest])

\* Thing.location
location(m, t) == get_thing(m, m.db.things[t].location_id)

\* Thing.move
move(m, t, to_thing) ==
    _calldb(m, "things", [m.db EXCEPT !.things[t].location_id = to_thing])

\* Thing.contents: the Things located in t, t itself left out, in row order
contents(m, t) ==
    SelectSeq([k \in DOMAIN m.db.things |-> k],
              LAMBDA k : m.db.things[k].location_id = t /\ k # t)

\* Thing.owns_thing
owns_thing(m, t, other_thing) == m.db.things[other_thing].owner_id = t

\* Thing.owner
owner(m, t) == get_thing(m, m.db.things[t].owner_id)

\* Thing.set_owner
set_owner(m, t, other) ==
    _calldb(m, "things", [m.db EXCEPT !.things[t].owner_id = other])

\* Thing.tell: msg goes to every connected Thing located in t and to t
\* itself, the excluded ids left out
RECURSIVE tell_each(_, _, _, _)
tell_each(m, targets, msg, exclude) ==
    IF targets = <<>> THEN m
    ELSE LET thing == Head(targets)
             m1 == IF thing \in DOMAIN m.connected_things /\ thing \notin exclude
                   THEN write(m, m.connected_things[thing], line(msg))
                   ELSE m
         IN tell_each(m1, Tail(targets), msg, exclude)

tell(m, t, msg, exclude) == tell_each(m, contents(m, t) \o <<t>>, msg, exclude)

-----------------------------------------------------------------------------
(* Accounts and passwords.  Byte strings are records: the empty byte       *)
(* string, the n-th value os.urandom can draw, the UTF-8 encoding of a     *)
(* text, and the PBKDF2 digest of a password under a salt (distinct        *)
(* inputs give distinct digests).  The password and salt columns hold the  *)
(* base64 text of such bytes; the "" placeholder is the base64 text of the *)
(* empty byte string.                                                      *)

b_empty == [kind |-> "empty", text |-> <<>>, n |-> 0]
urandom(k) == [kind |-> "random", text |-> <<>>, n |-> k]
encode_utf8(x) == [kind |-> "utf-8", text |-> x, n |-> 0]

b64encode(b) == [b64 |-> b]
b64decode(x) == x.b64

\* Account._hash
_hash(password, salt) == [kind |-> "pbkdf2_hmac", text |-> password.text, n |-> salt.n]

\* check_password accepting every candidate: what C4 excludes
check_password_any(m, acct, candidate) == TRUE

\* Account.check_password
check_password(m, acct, candidate) ==
    LET hashed_password == b64decode(m.db.accounts[acct].password)
        salt == b64decode(m.db.accounts[acct].salt)
        hashed_candidate == _hash(encode_utf8(candidate), salt)
    IN hashed_candidate = hashed_password

\* an UPDATE of the password without its WHERE clause
set_password_everyone(m, acct, password, k) ==
    LET salt == urandom(k)
        hashed_result == _hash(encode_utf8(password), salt)
    IN _calldb(m, "accounts",
               [m.db EXCEPT !.accounts =
                   [a \in DOMAIN @ |->
                       [@[a] EXCEPT !.password = b64encode(hashed_result),
                                    !.salt = b64encode(salt)]]])

\* Account.set_password; k is the draw of os.urandom(32)
set_password(m, acct, password, k) ==
    LET salt == urandom(k)
        hashed_result == _hash(encode_utf8(password), salt)
    IN _calldb(m, "accounts",
               [m.db EXCEPT !.accounts[acct].password = b64encode(hashed_result),
                            !.accounts[acct].salt = b64encode(salt)])

\* Account.character
character(m, acct) == get_thing(m, m.db.accounts[acct].character_id)

\* an add_thing that leaves the fake owner and location on an ownerless Thing
add_thing_fake_ids(m, name, owner_) ==
    Ok(_calldb(m, "things",
          [m.db EXCEPT !.things = Append(@,
              [owner_id |-> IF owner_ # None THEN owner_ ELSE 0,
               location_id |-> IF owner_ # None THEN owner_ ELSE 0,
               passage_to |-> None, name |-> name])]), Len(m.db.things) + 1)

\* Mica.add_thing; val is the new Thing
add_thing(m, name, owner_) ==
    IF owner_ # None
    THEN Ok(_calldb(m, "things",
               [m.db EXCEPT !.things = Append(@,
                   [owner_id |-> owner_, location_id |-> owner_,
                    passage_to |-> None, name |-> name])]), Len(m.db.things) + 1)
    ELSE With(_calldb(m, "things",
                 [m.db EXCEPT !.things = Append(@,
                     [owner_id |-> 0, location_id |-> 0,
                      passage_to |-> None, name |-> name])]), LAMBDA m1 :
              With(Len(m1.db.things), LAMBDA id :
                   Ok(move(set_owner(m1, id, id), id, id), id)))

\* Mica.add_account; val is the new account
add_account(m, name, password, k) ==
    Then(find_account(m, name), LAMBDA fa :
        IF fa.val # None THEN Fail(m, Raise("AccountNamingException", <<>>))
        ELSE With(add_thing(m, name, None), LAMBDA char :
             With(_calldb(char.m, "accounts",
                      [char.m.db EXCEPT !.accounts = Append(@,
                          [character_id |-> char.val,
                           password |-> b64encode(b_empty),
                           salt |-> b64encode(b_empty)])]), LAMBDA m1 :
                  Ok(set_password(m1, get_account(m1, Len(m1.db.accounts)), password, k),
                     Len(m1.db.accounts)))))

\* stand-ins for the two description texts setup_db inserts
descOne == <<"a", "g", "e", "l", "e", "s", "s">>
descNexus == <<"a", " ", "p", "l", "a", "c", "e">>

\* Python dicts: functions whose domain is the set of keys
EmptyDict == [x \in {} |-> 0]
Put(f, k, v) == [x \in (DOMAIN f) \cup {k} |-> IF x = k THEN v ELSE f[x]]
Del(f, k) == [x \in (DOMAIN f) \ {k} |-> f[x]]

\* Mica.__init__
Mica ==
    [db |-> [things |-> <<>>, accounts |-> <<>>, properties |-> <<>>],
     saved |-> [things |-> <<>>, accounts |-> <<>>, properties |-> <<>>],
     intx |-> FALSE,
     client_states |-> EmptyDict,
     connected_things |-> EmptyDict,
     commands |-> <<>>,
     prefix_commands |-> <<>>,
     login_commands |-> <<>>,
     motd |-> <<>>,
     out |-> [l \in Links |-> <<>>],
     tr |-> <<>>]

\* Mica.setup_db: the template rows are committed, then the bootstrap
\* password is set; k is the draw of os.urandom
setup_db(m, k) ==
    LET rows == [things |->
                    <<[owner_id |-> 1, location_id |-> 2, passage_to |-> None, name |-> s_One],
                      [owner_id |-> 1, location_id |-> 2, passage_to |-> None, name |-> s_Nexus]>>,
                 accounts |->
                    <<[character_id |-> 1, password |-> b64encode(b_empty),
                       salt |-> b64encode(b_empty)]>>,
                 properties |->
                    <<[object_id |-> 1, name |-> s_desc, val |-> descOne],
                      [object_id |-> 2, name |-> s_desc, val |-> descNexus]>>]
        m1 == _commitdb([m EXCEPT !.db = rows, !.intx = TRUE])
    IN set_password(m1, get_account(m1, 1), s_potrzebie, k)

-----------------------------------------------------------------------------
(* The name resolver.                                                      *)

\* int(s): Python accepts surrounding whitespace
CanInt(x) == IsInt(strip(x))

\* Thing.resolve_many_things; val is [none, items]: the method returns None
\* (none = TRUE) when it falls off its end, a list of Things otherwise
Many(m, items) == Ok(m, [none |-> FALSE, items |-> items])

\* a resolver without the rule for "me"
resolve_many_things_by_name(m, self, thing_) ==
    With(strip(thing_), LAMBDA thing :
        IF thing = s_here
        THEN IF location(m, self) # None THEN Many(m, <<location(m, self)>>) ELSE Many(m, <<>>)
        ELSE IF thing = <<>> THEN Fail(m, Raise("IndexError", <<>>))
        ELSE IF thing[1] = "#"
             THEN IF ~CanInt(Tail(thing)) THEN Many(m, <<>>)
                  ELSE With(get_thing(m, StrToInt(strip(Tail(thing)))), LAMBDA result :
                       IF result # None THEN Many(m, <<result>>) ELSE Many(m, <<>>))
        ELSE IF location(m, self) # None
             THEN Many(m, SelectSeq(contents(m, self) \o <<self>> \o <<location(m, self)>>,
                                    LAMBDA x : Contains(thing, Thing_name(m, x))))
        ELSE Ok(m, [none |-> TRUE, items |-> <<>>]))

\* a resolver that lets the ValueError of int() escape
resolve_many_things_unguarded(m, self, thing_) ==
    With(strip(thing_), LAMBDA thing :
        IF thing = s_me THEN Many(m, <<self>>)
        ELSE IF thing = s_here
             THEN IF location(m, self) # None THEN Many(m, <<location(m, self)>>)
                  ELSE Many(m, <<>>)
        ELSE IF thing = <<>> THEN Fail(m, Raise("IndexError", <<>>))
        ELSE IF thing[1] = "#"
             THEN IF ~CanInt(Tail(thing)) THEN Fail(m, Raise("ValueError", <<>>))
                  ELSE With(get_thing(m, StrToInt(strip(Tail(thing)))), LAMBDA result :
                       IF result # None THEN Many(m, <<result>>) ELSE Many(m, <<>>))
        ELSE IF location(m, self) # None
             THEN Many(m, SelectSeq(contents(m, self) \o <<self>> \o <<location(m, self)>>,
                                    LAMBDA x : Contains(thing, Thing_name(m, x))))
        ELSE Ok(m, [none |-> TRUE, items |-> <<>>]))

resolve_many_things(m, self, thing_) ==
    With(strip(thing_), LAMBDA thing :
        IF thing = s_me THEN Many(m, <<self>>)
        ELSE IF thing = s_here
             THEN IF location(m, self) # None THEN Many(m, <<location(m, self)>>)
                  ELSE Many(m, <<>>)
        ELSE IF thing = <<>> THEN Fail(m, Raise("IndexError", <<>>))
        ELSE IF thing[1] = "#"
             THEN IF ~CanInt(Tail(thing)) THEN Many(m, <<>>)
                  ELSE With(get_thing(m, StrToInt(strip(Tail(thing)))), LAMBDA result :
                       IF result # None THEN Many(m, <<result>>) ELSE Many(m, <<>>))
        ELSE IF location(m, self) # None
             THEN Many(m, SelectSeq(contents(m, self) \o <<self>> \o <<location(m, self)>>,
                                    LAMBDA x : Contains(thing, Thing_name(m, x))))
        ELSE Ok(m, [none |-> TRUE, items |-> <<>>]))

\* a resolver that takes the first of several candidates
resolve_one_thing_first(m, self, thing) ==
    Then(resolve_many_things(m, self, thing), LAMBDA results :
        IF results.val.none THEN Fail(m, Raise("NotEnoughResultsException", <<>>))
        ELSE IF Len(results.val.items) < 1
        THEN Fail(m, Raise("NotEnoughResultsException", <<>>))
        ELSE Ok(m, results.val.items[1]))

\* Thing.resolve_one_thing
resolve_one_thing(m, self, thing) ==
    Then(resolve_many_things(m, self, thing), LAMBDA results :
        IF results.val.none THEN Fail(m, Raise("NotEnoughResultsException", <<>>))
        ELSE IF Len(results.val.items) > 1
             THEN Fail(m, Raise("TooManyResultsException", <<>>))
        ELSE IF Len(results.val.items) < 1
             THEN Fail(m, Raise("NotEnoughResultsException", <<>>))
        ELSE Ok(m, results.val.items[1]))

\* self.client_states[link]['character']
Me(m, link) == get_thing(m, m.client_states[link])

\* Mica.pov_get_thing_by_name
pov_get_thing_by_name(m, link, thing) ==
    IF Me(m, link) = None THEN Fail(m, Raise("AttributeError", <<>>))
    ELSE With(resolve_one_thing(m, Me(m, link), thing), LAMBDA result :
         IF result.exc.type = "NotEnoughResultsException"
         THEN Fail(m, Raise("CommandProcessingError", <<Text("thing404", <<thing>>)>>))
         ELSE IF result.exc.type = "TooManyResultsException"
         THEN Fail(m, Raise("CommandProcessingError", <<Text("thingOverflow", <<>>)>>))
         ELSE result)

-----------------------------------------------------------------------------
(* Permissions (commands.py).                                              *)

PERMISSION_GUEST == 10
PERMISSION_BUILDER == 20
PERMISSION_WIZARD == 30

\* get_permission without the shortcut for the bootstrap character
get_permission_stored(m, char) ==
    With(Thing_get(m, char, s_privilege_level, PyInt(-1)), LAMBDA l :
         IF l = PyInt(-1)
         THEN Ok(Thing_setitem(m, char, s_privilege_level, PyInt(PERMISSION_GUEST)),
                 PyInt(PERMISSION_GUEST))
         ELSE Ok(m, l))

\* get_permission; val is the Python value returned: an int for the
\* bootstrap character and for a first read, the stored text otherwise
get_permission(m, char) ==
    IF char = 1 THEN Ok(m, PyInt(PERMISSION_WIZARD))
    ELSE With(Thing_get(m, char, s_privilege_level, PyInt(-1)), LAMBDA l :
         IF l = PyInt(-1)
         THEN Ok(Thing_setitem(m, char, s_privilege_level, PyInt(PERMISSION_GUEST)),
                 PyInt(PERMISSION_GUEST))
         ELSE Ok(m, l))

\* check_permission: `get_permission(char) < level' on a str and an int
\* raises TypeError
check_permission(m, char, level) ==
    IF char = None THEN Fail(m, Raise("AttributeError", <<>>))
    ELSE With(get_permission(m, char), LAMBDA p :
         IF p.val.t # "int" THEN Fail(p.m, Raise("TypeError", <<>>))
         ELSE IF p.val.i < level
         THEN Fail(p.m, Raise("CommandProcessingError", <<Text("noPermission", <<>>)>>))
         ELSE Ok(p.m, None))

-----------------------------------------------------------------------------
(* Command handlers (commands.py).  A handler returns [m, exc, val].       *)

RECURSIVE on_text(_, _, _)

CPE(msg) == Raise("CommandProcessingError", <<msg>>)

\* sep.join(parts)
RECURSIVE Join(_, _)
Join(parts, sep) ==
    IF parts = <<>> THEN <<>>
    ELSE IF Len(parts) = 1 THEN parts[1]
    ELSE parts[1] \o sep \o Join(Tail(parts), sep)

CountOf(x, c) == Cardinality({k \in DOMAIN x : x[k] = c})

RECURSIVE write_each(_, _, _)
write_each(m, link, msgs) ==
    IF msgs = <<>> THEN m
    ELSE write_each(write(m, link, Head(msgs)), link, Tail(msgs))

\* ", ".join([x.display_name() for x in xs])
names(m, xs) == Join([k \in DOMAIN xs |-> display_name(m, xs[k])], <<",", " ">>)

\* the lines do_look writes once its target is known
look_lines(m, tgt, desc, objects, exits) ==
    <<line(Text("", <<display_name(m, tgt)>>)),
      line(IF desc.t = "str" THEN Text("", <<desc.s>>) ELSE Text("descMissing", <<>>))>>
    \o (IF Len(objects) > 0
        THEN <<line(Text("beforeListingObjects", <<names(m, objects)>>))>> ELSE <<>>)
    \o (IF Len(exits) > 0
        THEN <<line(Text("beforeListingExits", <<names(m, exits)>>))>> ELSE <<>>)

\* the part of do_look after the target is known
look_at(m, link, tgt) ==
    Ok(write_each(m, link,
           look_lines(m, tgt, Thing_get(m, tgt, s_desc, PyInt(-1)),
               SelectSeq(contents(m, tgt), LAMBDA x : destination(m, x) = None),
               SelectSeq(contents(m, tgt), LAMBDA x : destination(m, x) # None))),
       None)

\* do_look, registered as "l" and as "look"
do_look(m, link, text_) ==
    Then(check_permission(m, Me(m, link), PERMISSION_GUEST), LAMBDA p :
    Then(IF Len(strip(text_)) > 0 THEN pov_get_thing_by_name(p.m, link, strip(text_))
         ELSE Ok(p.m, location(p.m, Me(m, link))), LAMBDA tgt :
        IF tgt.val = None THEN Ok(write(tgt.m, link, Text("youAreNowhere", <<>>)), None)
        ELSE look_at(tgt.m, link, tgt.val)))

\* the two functions named do_say: "say" with the prefix '"' (key
\* characterSays) and "pose" with the prefix ':' (key characterPoses)
say_or_pose(m, link, text_, key, usage) ==
    Then(check_permission(m, Me(m, link), PERMISSION_GUEST), LAMBDA p :
        IF Len(strip(text_)) < 1 THEN Fail(p.m, CPE(Text("cmdSyntax", <<usage>>)))
        ELSE IF location(p.m, Me(m, link)) # None
             THEN Ok(tell(p.m, location(p.m, Me(m, link)),
                          Text(key, <<Thing_name(p.m, Me(m, link)), strip(text_)>>), {}),
                     None)
        ELSE Ok(p.m, None))

do_say(m, link, text) == say_or_pose(m, link, text, "characterSays", s_say)

do_pose(m, link, text) == say_or_pose(m, link, text, "characterPoses", s_pose)

\* do_inventory, registered as "i" and as "inventory"
do_inventory(m, link, text) ==
    Then(check_permission(m, Me(m, link), PERMISSION_GUEST), LAMBDA p :
    With(contents(p.m, Me(m, link)), LAMBDA things :
        IF Len(things) > 0
        THEN Ok(write_each(write(p.m, link, line(Text("beforeListingInventory", <<>>))),
                           link,
                           [k \in DOMAIN things |->
                               line(Text("", <<display_name(p.m, things[k])>>))]),
                None)
        ELSE Ok(write(p.m, link, line(Text("carryingNothing", <<>>))), None)))

\* do_jump: the move is followed by a nested dispatch of "look"
do_jump(m, link, text_) ==
    Then(check_permission(m, Me(m, link), PERMISSION_BUILDER), LAMBDA p :
        IF Len(strip(text_)) < 1 THEN Fail(p.m, CPE(Text("cmdSyntax", <<s_jump>>)))
        ELSE Then(pov_get_thing_by_name(p.m, link, strip(text_)), LAMBDA dest :
                  on_text(move(dest.m, Me(m, link), dest.val), link, s_look)))

\* try_create_thing: re.match("^([^=]+)(=[^=]+)?$", text), then
\* m.add_thing(maker, parsed[1]).  The arguments are in the wrong order:
\* add_thing's `assert type(owner) is Thing or owner is None' fails on the
\* name, before any row is written.  val is FALSE for a syntax error.
try_create_thing(m, text, maker) ==
    LET eq == IndexOf(text, "=")
        matched == /\ text # <<>>
                   /\ \/ CountOf(text, "=") = 0
                      \/ CountOf(text, "=") = 1 /\ eq > 1 /\ eq < Len(text)
        parsed1 == IF eq = 0 THEN text ELSE SubSeq(text, 1, eq - 1)
    IN IF ~matched \/ Len(strip(parsed1)) < 2 THEN Ok(m, FALSE)
       ELSE Fail(m, Raise("AssertionError", <<>>))

\* do_make
do_make(m, link, text_) ==
    Then(check_permission(m, Me(m, link), PERMISSION_BUILDER), LAMBDA p :
    Then(try_create_thing(p.m, strip(text_), Me(m, link)), LAMBDA result :
        Fail(result.m, CPE(Text("cmdSyntax", <<s_make>>)))))

\* do_build
do_build(m, link, text_) ==
    Then(check_permission(m, Me(m, link), PERMISSION_BUILDER), LAMBDA p :
    Then(try_create_thing(p.m,
             IF Take(text_, 2) = <<"-", "t">> THEN strip(Drop(text_, 2)) ELSE text_,
             Me(m, link)), LAMBDA new_thing :
        Fail(new_thing.m, CPE(Text("cmdSyntax", <<s_build>>)))))

\* do_open: re.match("^([^=]+)=([^=]+)$", text); m.add_thing(me, name) has
\* its arguments in the wrong order as well
do_open(m, link, text) ==
    Then(check_permission(m, Me(m, link), PERMISSION_BUILDER), LAMBDA p :
    With(IndexOf(text, "="), LAMBDA eq :
        IF ~(CountOf(text, "=") = 1 /\ eq > 1 /\ eq < Len(text))
        THEN Fail(p.m, CPE(Text("cmdSyntax", <<s_open>>)))
        ELSE Then(pov_get_thing_by_name(p.m, link, strip(Drop(text, eq))), LAMBDA target :
                  Fail(target.m, Raise("AssertionError", <<>>)))))

\* re.match("^([^:]+):([^=:]+)=(.*)$", text): the three groups, or
\* matched = FALSE
set_syntax(text) ==
    With(IndexOf(text, ":"), LAMBDA colon :
    With(IndexOf(Drop(text, colon), "="), LAMBDA eq :
        [matched |-> /\ colon > 1
                     /\ eq > 1
                     /\ \/ IndexOf(Drop(text, colon), ":") = 0
                        \/ IndexOf(Drop(text, colon), ":") > eq,
         obj |-> SubSeq(text, 1, colon - 1),
         attr |-> SubSeq(Drop(text, colon), 1, eq - 1),
         val |-> Drop(Drop(text, colon), eq)]))

\* do_set
do_set(m, link, text_) ==
    Then(check_permission(m, Me(m, link), PERMISSION_WIZARD), LAMBDA p :
    With(set_syntax(strip(text_)), LAMBDA stuff :
        IF ~stuff.matched THEN Fail(p.m, CPE(Text("cmdSyntax", <<s_set>>)))
        ELSE Then(pov_get_thing_by_name(p.m, link, stuff.obj), LAMBDA tgt :
                  Ok(write(Thing_setitem(tgt.m, tgt.val, stuff.attr, PyStr(stuff.val)), link,
                           line(Text("setAttrToValSuccess", <<stuff.attr, stuff.val>>))),
                     None))))

\* the lines do_exam writes about tgt
exam_lines(m, tgt, items) ==
    <<line(Text("examiningThing", <<display_name(m, tgt)>>)),
      IF owner(m, tgt) # None
      THEN line(Text("thingOwner", <<display_name(m, owner(m, tgt))>>))
      ELSE line(Text("thingHasNoOwner", <<>>))>>
    \o [k \in DOMAIN items |->
           line(Text("thingParameterValue", <<items[k].name, items[k].val>>))]

\* do_exam, registered as "ex" and as "examine"
do_exam(m, link, text) ==
    Then(check_permission(m, Me(m, link), PERMISSION_WIZARD), LAMBDA p :
    Then(pov_get_thing_by_name(p.m, link, strip(text)), LAMBDA tgt :
        Ok(write_each(tgt.m, link, exam_lines(tgt.m, tgt.val, Thing_items(tgt.m, tgt.val))),
           None)))

\* do_badly, registered as "crash"
do_badly(m, link, text) == Fail(m, Raise("Exception", <<>>))

\* A handler registered by the embedding program through Mica.command, as
\* the atomicity test of the specification does: it writes a property of
\* the character and then returns or raises as its argument says.
do_probe(m, link, text_) ==
    With(Thing_setitem(m, Me(m, link), s_mark, PyStr(strip(text_))), LAMBDA m1 :
        IF strip(text_) = <<"0">> THEN Fail(m1, Raise("CommandProcessingError", <<>>))
        ELSE IF strip(text_) = <<"1">> THEN Fail(m1, CPE(Text("", <<s_probe>>)))
        ELSE IF strip(text_) = <<"2">>
             THEN Fail(m1, Raise("CommandProcessingError",
                                 <<Text("", <<s_probe>>), Text("", <<s_mark>>)>>))
        ELSE IF strip(text_) = <<"x">> THEN Fail(m1, Raise("Exception", <<>>))
        ELSE Ok(m1, None))

\* cmd(link, text) for a registered function
Handler(cmd, m, link, text) ==
    CASE cmd = "do_look" -> do_look(m, link, text)
      [] cmd = "do_say" -> do_say(m, link, text)
      [] cmd = "do_pose" -> do_pose(m, link, text)
      [] cmd = "do_inventory" -> do_inventory(m, link, text)
      [] cmd = "do_jump" -> do_jump(m, link, text)
      [] cmd = "do_make" -> do_make(m, link, text)
      [] cmd = "do_build" -> do_build(m, link, text)
      [] cmd = "do_open" -> do_open(m, link, text)
      [] cmd = "do_set" -> do_set(m, link, text)
      [] cmd = "do_exam" -> do_exam(m, link, text)
      [] cmd = "do_badly" -> do_badly(m, link, text)
      [] cmd = "do_probe" -> do_probe(m, link, text)

-----------------------------------------------------------------------------
(* The session state machine, the dispatcher and the transaction manager   *)
(* (core.py, class Mica).                                                  *)

\* Mica.show_tracebacks as the constructor leaves it
show_tracebacks == FALSE

\* repr(e.args) of a CommandProcessingError with several arguments
repr_args(args) ==
    [k \in DOMAIN args |-> IF args[k].args = <<>> THEN <<>> ELSE args[k].args[1]]

\* the message call_command writes for a CommandProcessingError
cpe_message(args) ==
    IF Len(args) = 1 THEN line(args[1])
    ELSE IF Len(args) > 1 THEN line(Text("cmdErrWithArgs", repr_args(args)))
    ELSE line(Text("cmdErrUnspecified", <<>>))

\* resolve with the rollback of the first except clause turned into a
\* commit: what C1 excludes
resolve_keeping(m, link, exc) ==
    IF exc.type = "CommandProcessingError"
    THEN Ok(_commitdb(write(m, link, cpe_message(exc.args))), None)
    ELSE IF exc # NoExc
    THEN Ok(rollback(write(write(m, link, line(Text("cmdErrUnspecified", <<>>))), link,
                           line(Text("err", <<>>)))),
            None)
    ELSE Ok(_commitdb(m), None)

\* resolve without the second except clause: an exception other than
\* CommandProcessingError leaves call_command unresolved, what C2 excludes
resolve_unguarded(m, link, exc) ==
    IF exc.type = "CommandProcessingError"
    THEN Ok(rollback(write(m, link, cpe_message(exc.args))), None)
    ELSE IF exc # NoExc THEN Fail(m, exc)
    ELSE Ok(_commitdb(m), None)

\* a call_command that handles CommandProcessingError only
resolve_cpe_only(m, link, exc) ==
    IF exc.type = "CommandProcessingError"
    THEN Ok(rollback(write(m, link, cpe_message(exc.args))), None)
    ELSE IF exc # NoExc THEN Fail(m, exc)
    ELSE Ok(_commitdb(m), None)

\* the except clauses and the commit of Mica.call_command, entered with the
\* exception exc the handler raised (NoExc if it returned)
resolve(m, link, exc) ==
    IF exc.type = "CommandProcessingError"
    THEN Ok(rollback(write(m, link, cpe_message(exc.args))), None)
    ELSE IF exc # NoExc
    THEN Ok(rollback(write(write(m, link, line(Text("cmdErrUnspecified", <<>>))), link,
                           IF show_tracebacks THEN line(Text("err", <<<<"t", "x">>>>))
                           ELSE line(Text("err", <<>>)))),
            None)
    ELSE Ok(_commitdb(m), None)

\* Mica.call_command
call_command(m, link, cmd, text) ==
    With(Handler(cmd, Note(m, "call", cmd, text, ""), link, text), LAMBDA r :
        resolve(Note(r.m, "ret", cmd, <<>>, r.exc.type), link, r.exc))

\* a search that stops at the first exit whose name contains exitname
prospective_exits_first(m, fromloc, exitname) ==
    Take(SelectSeq(SelectSeq(contents(m, fromloc), LAMBDA x : destination(m, x) # None),
                   LAMBDA x : Contains(exitname, Thing_name(m, x))), 1)

\* a search in which the empty name is the name of no exit
prospective_exits_named(m, fromloc, exitname) ==
    SelectSeq(SelectSeq(contents(m, fromloc), LAMBDA x : destination(m, x) # None),
              LAMBDA x : exitname # <<>> /\ Contains(exitname, Thing_name(m, x)))

\* the exits of fromloc whose name contains exitname
prospective_exits(m, fromloc, exitname) ==
    SelectSeq(SelectSeq(contents(m, fromloc), LAMBDA x : destination(m, x) # None),
              LAMBDA x : Contains(exitname, Thing_name(m, x)))

\* a traversal that moves first and tells both rooms afterwards
go_through_moving_first(m, self, fromloc, toloc) ==
    With(Note(move(m, self, toloc), "moved", "traverse_exit", <<>>, ""), LAMBDA m2 :
        Ok(Note(tell(Note(tell(m2, location(m2, self),
                               Text("characterDeparts",
                                    <<display_name(m2, self), Thing_name(m2, toloc)>>),
                               {self}),
                          "tell", "characterDeparts", <<>>, ""),
                     location(m2, self),
                     Text("characterArrives",
                          <<display_name(m2, self), Thing_name(m2, fromloc)>>),
                     {self}),
                "tell", "characterArrives", <<>>, ""),
           toloc))

\* the part of Thing.traverse_exit that goes through the one exit found;
\* the steps "tell" record when each of the two messages went out
go_through(m, self, fromloc, toloc) ==
    With(Note(move(Note(tell(m, location(m, self),
                             Text("characterDeparts",
                                  <<display_name(m, self), Thing_name(m, toloc)>>),
                             {self}),
                        "tell", "characterDeparts", <<>>, ""),
                   self, toloc),
              "moved", "traverse_exit", <<>>, ""), LAMBDA m2 :
        Ok(Note(tell(m2, location(m2, self),
                     Text("characterArrives",
                          <<display_name(m2, self), Thing_name(m2, fromloc)>>),
                     {self}),
                "tell", "characterArrives", <<>>, ""),
           toloc))

\* a traversal that returns the current location when no exit is found
traverse_exit_staying(m, self, exitname) ==
    IF location(m, self) = None THEN Ok(m, None)
    ELSE With(prospective_exits(m, location(m, self), exitname), LAMBDA exits :
         IF Len(exits) = 1
         THEN go_through(m, self, location(m, self), destination(m, exits[1]))
         ELSE IF Len(exits) > 1 THEN Fail(m, Raise("TooManyResultsException", <<>>))
         ELSE Ok(m, location(m, self)))

\* Thing.traverse_exit; val is the new location
traverse_exit(m, self, exitname) ==
    IF location(m, self) = None THEN Ok(m, None)
    ELSE With(prospective_exits(m, location(m, self), exitname), LAMBDA exits :
         IF Len(exits) = 1
         THEN go_through(m, self, location(m, self), destination(m, exits[1]))
         ELSE IF Len(exits) > 1 THEN Fail(m, Raise("TooManyResultsException", <<>>))
         ELSE Fail(m, Raise("NotEnoughResultsException", <<>>)))

\* the loop `for cmd in self.login_commands: self.on_text(link, cmd)'
RECURSIVE run_login_commands(_, _, _)
run_login_commands(m, link, cmds) ==
    IF cmds = <<>> THEN Ok(m, None)
    ELSE Then(on_text(m, link, Head(cmds)), LAMBDA r :
              run_login_commands(r.m, link, Tail(cmds)))

\* a login that writes the message of the day after the login commands
logged_in_motd_last(m, link, acct) ==
    With(m.db.accounts[acct].character_id, LAMBDA char_id :
    With([m EXCEPT !.client_states = Put(@, link, char_id),
                   !.connected_things = Put(@, char_id, link)], LAMBDA m1 :
    Then(run_login_commands(Note(m1, "login", "", <<>>, ""), link, m.login_commands),
         LAMBDA r0 :
    With([r0 EXCEPT !.m = IF m.motd # <<>> THEN write(r0.m, link, line(m.motd[1]))
                          ELSE r0.m], LAMBDA r :
        IF location(r.m, character(r.m, acct)) # None
        THEN Ok(tell(r.m, location(r.m, character(r.m, acct)),
                     Text("characterConnected",
                          <<display_name(r.m, character(r.m, acct))>>),
                     {}), TRUE)
        ELSE Ok(r.m, TRUE)))))

\* the part of Mica._try_login after the password verified
logged_in(m, link, acct) ==
    With(m.db.accounts[acct].character_id, LAMBDA char_id :
    With([m EXCEPT !.client_states = Put(@, link, char_id),
                   !.connected_things = Put(@, char_id, link)], LAMBDA m1 :
    Then(run_login_commands(
             Note(IF m.motd # <<>> THEN write(m1, link, line(m.motd[1])) ELSE m1,
                  "login", "", <<>>, ""),
             link, m.login_commands), LAMBDA r :
        IF location(r.m, character(r.m, acct)) # None
        THEN Ok(tell(r.m, location(r.m, character(r.m, acct)),
                     Text("characterConnected",
                          <<display_name(r.m, character(r.m, acct))>>),
                     {}), TRUE)
        ELSE Ok(r.m, TRUE))))

\* _try_login with a message of its own for a name no account has: what
\* C5 excludes
_try_login_telling(m, link, args_) ==
    With(split(args_), LAMBDA args :
        IF Len(args) # 2
        THEN Ok(write(m, link, line(Text("cmdSyntax", <<s_connect>>))), None)
        ELSE Then(find_account(m, args[1]), LAMBDA acct :
             IF acct.val = None
             THEN Ok(write(m, link, line(Text("thing404", <<args[1]>>))), FALSE)
             ELSE IF check_password(m, acct.val, args[2])
             THEN logged_in(m, link, acct.val)
             ELSE Ok(write(m, link, line(Text("badLogin", <<>>))), FALSE)))

\* Mica._try_login
_try_login(m, link, args_) ==
    With(split(args_), LAMBDA args :
        IF Len(args) # 2
        THEN Ok(write(m, link, line(Text("cmdSyntax", <<s_connect>>))), None)
        ELSE Then(find_account(m, args[1]), LAMBDA acct :
             IF acct.val = None
             THEN Ok(write(m, link, line(Text("badLogin", <<>>))), FALSE)
             ELSE IF check_password(m, acct.val, args[2])
             THEN logged_in(m, link, acct.val)
             ELSE Ok(write(m, link, line(Text("badLogin", <<>>))), FALSE)))

\* the first entry of a registry whose test succeeded, 0 if none did;
\* hits[k] is the outcome of the test for entry k
FirstMatch(hits) ==
    IF \E k \in DOMAIN hits : hits[k]
    THEN CHOOSE k \in DOMAIN hits : hits[k] /\ \A j \in 1..(k - 1) : ~hits[j]
    ELSE 0

\* `cmd[0] == text[:len(cmd[0])]'
matches_prefix(cmd, text) == cmd.name = Take(text, Len(cmd.name))

\* a test that takes any line beginning with the name
matches_command_startswith(cmd, text) == cmd.name = Take(text, Len(cmd.name))

\* `cmd[0] + ' ' == text[:len(cmd[0])+1] or cmd[0].strip() == text.strip()'
matches_command(cmd, text) ==
    \/ cmd.name \o SP = Take(text, Len(cmd.name) + 1)
    \/ strip(cmd.name) = strip(text)

\* the outcome of the first loop's test for each registered prefix
prefix_hits(m, text) ==
    [k \in DOMAIN m.prefix_commands |-> matches_prefix(m.prefix_commands[k], text)]

\* the outcome of the second loop's test for each registered full command
command_hits(m, text) ==
    [k \in DOMAIN m.commands |-> matches_command(m.commands[k], text)]

\* the part of Mica.on_text after both registries failed to match
movement_fallback(m, link, text) ==
    IF Me(m, link) = None
    THEN Ok(write(Note(m, "fallback", "", text, ""), link,
                  line(Text("youDontExist", <<>>))), FALSE)
    ELSE IF location(m, Me(m, link)) = None
    THEN Ok(write(Note(m, "fallback", "", text, ""), link, line(Text("cmd404", <<>>))), None)
    ELSE With(traverse_exit(Note(m, "fallback", "", text, ""), Me(m, link), strip(text)),
              LAMBDA t :
         IF t.exc = NoExc THEN on_text(t.m, link, s_look)
         ELSE IF t.exc.type = "NotEnoughResultsException"
              THEN Ok(write(t.m, link, line(Text("cmd404", <<>>))), None)
         ELSE IF t.exc.type = "TooManyResultsException"
              THEN Ok(write(t.m, link, line(Text("triedToGoAmbiguousWay", <<>>))), None)
         ELSE t)

\* dispatch with the two loops exchanged, full commands first: what C8
\* excludes
dispatch_commands_first(m, link, text, p, c) ==
    IF c # 0
    THEN call_command(Note(m, "command", m.commands[c].fn, m.commands[c].name, ""),
                      link, m.commands[c].fn, Drop(text, Len(m.commands[c].name) + 1))
    ELSE IF p # 0
    THEN call_command(Note(m, "prefix", m.prefix_commands[p].fn,
                           m.prefix_commands[p].name, ""),
                      link, m.prefix_commands[p].fn,
                      Drop(text, Len(m.prefix_commands[p].name)))
    ELSE movement_fallback(m, link, text)

\* the authenticated part of Mica.on_text: p and c are the first matching
\* entries of the two registries, 0 for none
dispatch(m, link, text, p, c) ==
    IF p # 0
    THEN call_command(Note(m, "prefix", m.prefix_commands[p].fn,
                           m.prefix_commands[p].name, ""),
                      link, m.prefix_commands[p].fn,
                      Drop(text, Len(m.prefix_commands[p].name)))
    ELSE IF c # 0
    THEN call_command(Note(m, "command", m.commands[c].fn, m.commands[c].name, ""),
                      link, m.commands[c].fn, Drop(text, Len(m.commands[c].name) + 1))
    ELSE movement_fallback(m, link, text)

\* on_text without the test `if s == -1': every line is dispatched, what
\* C6 excludes
on_text_open(m, link, text) ==
    dispatch(m, link, text,
             FirstMatch(prefix_hits(m, text)),
             FirstMatch(command_hits(m, text)))

\* the last entry of a registry whose test succeeded, 0 if none did
LastMatch(hits) ==
    IF \E k \in DOMAIN hits : hits[k]
    THEN CHOOSE k \in DOMAIN hits : hits[k] /\ \A j \in (k + 1)..Len(hits) : ~hits[j]
    ELSE 0

\* on_text taking abbreviations: the full command is the last registered
\* name the line starts with, what C10 excludes
on_text_abbrev(m, link, text) ==
    IF m.client_states[link] = -1
    THEN IF Take(text, Len(s_connect)) = s_connect
         THEN _try_login(m, link, Drop(text, Len(s_connect) + 1))
         ELSE Ok(write(m, link, line(Text("cmd404", <<>>))), None)
    ELSE dispatch(m, link, text,
                  FirstMatch(prefix_hits(m, text)),
                  LastMatch([k \in DOMAIN m.commands |->
                                matches_prefix(m.commands[k], text)]))

\* on_text taking a "connect" line as a login in every session state
on_text_relogin(m, link, text) ==
    IF Take(text, Len(s_connect)) = s_connect
    THEN _try_login(m, link, Drop(text, Len(s_connect) + 1))
    ELSE IF m.client_states[link] = -1
    THEN Ok(write(m, link, line(Text("cmd404", <<>>))), None)
    ELSE dispatch(m, link, text,
                  FirstMatch(prefix_hits(m, text)),
                  FirstMatch(command_hits(m, text)))

\* Mica.on_text
on_text(m, link, text) ==
    IF m.client_states[link] = -1
    THEN IF Take(text, Len(s_connect)) = s_connect
         THEN _try_login(m, link, Drop(text, Len(s_connect) + 1))
         ELSE Ok(write(m, link, line(Text("cmd404", <<>>))), None)
    ELSE dispatch(m, link, text,
                  FirstMatch(prefix_hits(m, text)),
                  FirstMatch(command_hits(m, text)))

\* Mica.on_connection
on_connection(m, new_link) ==
    write([m EXCEPT !.client_states = Put(@, new_link, -1)], new_link,
          line(Text("welcome", <<>>)))

\* forget leaving the reverse index as it is: what C7 excludes
forget_session(m, old_link, states) == [m EXCEPT !.client_states = states]

\* forget filtering the reverse index against the session table as it was
\* before old_link was deleted from it
forget_before_delete(m, old_link, states) ==
    [m EXCEPT !.client_states = states,
              !.connected_things =
                  [k \in {x \in DOMAIN m.connected_things :
                             m.connected_things[x] \in DOMAIN m.client_states}
                     |-> m.connected_things[k]]]

\* the removal of old_link from both session tables
forget(m, old_link, states) ==
    [m EXCEPT !.client_states = states,
              !.connected_things =
                  [k \in {x \in DOMAIN m.connected_things :
                             m.connected_things[x] \in DOMAIN states}
                     |-> m.connected_things[k]]]

\* an on_disconnection without the cleanup of the reverse index
on_disconnection_unindexed(m, old_link) ==
    Then(IF Me(m, old_link) = None THEN Ok(m, None)
         ELSE IF location(m, Me(m, old_link)) = None
              THEN Fail(m, Raise("AttributeError", <<>>))
         ELSE Ok(tell(m, location(m, Me(m, old_link)),
                      Text("characterDisconnected", <<Thing_name(m, Me(m, old_link))>>),
                      {}), None), LAMBDA told :
        Ok([told.m EXCEPT !.client_states = Del(@, old_link)], None))

\* Mica.on_disconnection
on_disconnection(m, old_link) ==
    Then(IF Me(m, old_link) = None THEN Ok(m, None)
         ELSE IF location(m, Me(m, old_link)) = None
              THEN Fail(m, Raise("AttributeError", <<>>))
         ELSE Ok(tell(m, location(m, Me(m, old_link)),
                      Text("characterDisconnected", <<Thing_name(m, Me(m, old_link))>>),
                      {}), None), LAMBDA told :
        Ok(forget(told.m, old_link, Del(told.m.client_states, old_link)), None))

\* Mica.command: the decorator appends (name, fn)
command(m, name, fn) ==
    [m EXCEPT !.commands = Append(@, [name |-> name, fn |-> fn])]

\* Mica.prefix_command
prefix_command(m, prefix, fn) ==
    [m EXCEPT !.prefix_commands = Append(@, [name |-> prefix, fn |-> fn])]

\* commands.implement: stacked decorators are applied bottom-up, so of
\* `@m.command("look") @m.command("l")' the name "l" is registered first;
\* the last statement is `m.login_commands.append("look")'
implement(m) ==
    LET m1 == command(command(m, s_l, "do_look"), s_look, "do_look")
        m2 == command(prefix_command(m1, <<"\"">>, "do_say"), s_say, "do_say")
        m3 == command(prefix_command(m2, <<":">>, "do_pose"), s_pose, "do_pose")
        m4 == command(command(m3, s_i, "do_inventory"), s_inventory, "do_inventory")
        m5 == command(m4, s_jump, "do_jump")
        m6 == command(m5, s_make, "do_make")
        m7 == command(m6, s_build, "do_build")
        m8 == command(m7, s_open, "do_open")
        m9 == command(m8, s_set, "do_set")
        m10 == command(command(m9, s_ex, "do_exam"), s_examine, "do_exam")
    IN [command(m10, s_crash, "do_badly") EXCEPT !.login_commands = Append(@, s_look)]

-----------------------------------------------------------------------------
(* Worlds: the states the server can start from.  Each is built by the     *)
(* operations above, as a program embedding the engine builds its world.   *)

\* the draws of os.urandom the model tells apart
NumSalts == 2

s_north_gate == s_north \o SP \o s_gate
s_colon_look == <<":">> \o s_look

\* __main__: Mica(db), setup_db(), commands.implement(mica); the bootstrap
\* password is still uncommitted
BootWorld(k) == implement(setup_db(Mica, k))

\* a built world, committed with _commitdb: the character Alice (Thing 3)
\* standing in the Nexus, the room Hall (4), the exits "north" (5) and
\* "north gate" (6) from the Nexus to the Hall, the exit ":look" (7) from
\* the Hall to the Nexus, the Thing "home" (8) carried by One, and the
\* handler do_probe registered as "probe"
TownWorld ==
    LET m1 == add_account(BootWorld(1), s_Alice, s_hunter2, 2).m
        m2 == add_thing(m1, s_Hall, None).m
        m3 == set_destination(add_thing(m2, s_north, 2).m, 5, 4)
        m4 == set_destination(add_thing(m3, s_north_gate, 2).m, 6, 4)
        m5 == set_destination(add_thing(m4, s_colon_look, 4).m, 7, 2)
        m6 == move(m5, 3, 2)
        m7 == add_thing(m6, s_home, 1).m
    IN _commitdb(command(m7, s_probe, "do_probe"))

\* a program that registers its own commands instead of calling
\* commands.implement: "look" before "l", the prefix "sa" beside the
\* command "say", and "jump"; it sets no login commands, it has stored the
\* level 5 on the bootstrap character, and it has created the account
\* Alice, whose character (Thing 3) is where add_thing left it, in itself;
\* the rows are committed
CustomWorld ==
    LET m1 == command(command(setup_db(Mica, 1), s_look, "do_look"), s_l, "do_look")
        m2 == command(prefix_command(m1, <<"s", "a">>, "do_pose"), s_say, "do_say")
        m3 == command(m2, s_jump, "do_jump")
        m4 == Thing_setitem(m3, 1, s_privilege_level, PyInt(5))
    IN _commitdb(add_account(m4, s_Alice, s_hunter2, 2).m)

\* a program that sets a message of the day on the server __main__ builds
\* and adds "i" to its login commands
MotdWorld ==
    [BootWorld(1) EXCEPT !.motd = <<Text("", <<s_hello>>)>>,
                         !.login_commands = Append(@, s_i)]

Worlds == {BootWorld(k) : k \in 1..NumSalts} \cup {TownWorld, CustomWorld, MotdWorld}

-----------------------------------------------------------------------------
(* The lines the network code delivers.                                    *)

Words(ws) == Join(ws, SP)

Lines ==
    { Words(<<s_connect, s_One, s_potrzebie>>),
      Words(<<s_connect, s_One, s_wrong>>),
      Words(<<s_connect, s_Bob, s_wrong>>),
      Words(<<s_connect, s_Alice, s_hunter2>>),
      Words(<<s_connect, s_Alice>>),
      s_connect \o <<":">> \o Words(<<s_Alice, s_hunter2>>),
      s_look,
      s_l,
      Words(<<s_look, s_me>>),
      SP \o SP \o s_look,
      SP \o Words(<<s_look, s_me>>),
      <<"\"">> \o s_hello,
      s_colon_look,
      s_say,
      Words(<<s_say, s_hello>>),
      s_i,
      Words(<<s_jump, <<"#", "4">>>>),
      s_jump,
      Words(<<s_make, s_Hall>>),
      Words(<<s_set, s_me \o <<":">> \o s_mark \o <<"=", "x">>>>),
      Words(<<s_ex, s_me>>),
      s_ex,
      Words(<<s_ex, <<"#", "9">>>>),
      Words(<<s_ex, <<"e">>>>),
      s_crash,
      s_north,
      s_nort,
      s_north_gate,
      <<"o", "o", "k">>,
      <<>>,
      SP \o SP,
      s_probe,
      Words(<<s_probe, <<"0">>>>),
      Words(<<s_probe, <<"1">>>>),
      Words(<<s_probe, <<"2">>>>),
      Words(<<s_probe, <<"x">>>>) }

-----------------------------------------------------------------------------
(* The state machine: the network code delivers one event at a time.       *)

\* the machine the next event runs on; out and tr describe one event
Cur ==
    [db |-> db, saved |-> saved, intx |-> intx,
     client_states |-> client_states, connected_things |-> connected_things,
     commands |-> commands, prefix_commands |-> prefix_commands,
     login_commands |-> login_commands,
     motd |-> motd,
     out |-> [l \in Links |-> <<>>], tr |-> <<>>]

Snapshot ==
    [db |-> db, saved |-> saved, intx |-> intx,
     client_states |-> client_states, connected_things |-> connected_things]

Event(kind, link, text, exc) == [kind |-> kind, link |-> link, text |-> text, exc |-> exc]

Install(m, e) ==
    /\ db' = m.db
    /\ saved' = m.saved
    /\ intx' = m.intx
    /\ client_states' = m.client_states
    /\ connected_things' = m.connected_things
    /\ commands' = m.commands
    /\ prefix_commands' = m.prefix_commands
    /\ login_commands' = m.login_commands
    /\ motd' = m.motd
    /\ out' = m.out
    /\ tr' = m.tr
    /\ ev' = e
    /\ pre' = Snapshot

Init ==
    \E w \in Worlds :
        /\ db = w.db
        /\ saved = w.saved
        /\ intx = w.intx
        /\ client_states = w.client_states
        /\ connected_things = w.connected_things
        /\ commands = w.commands
        /\ prefix_commands = w.prefix_commands
        /\ login_commands = w.login_commands
        /\ motd = w.motd
        /\ out = [l \in Links |-> <<>>]
        /\ tr = <<>>
        /\ ev = Event("select", 0, <<>>, "none")
        /\ pre = [db |-> w.db, saved |-> w.saved, intx |-> w.intx,
                  client_states |-> w.client_states,
                  connected_things |-> w.connected_things]
        /\ gone = {}

\* the event loop waits in sel.select() for the next event
Waiting == ev.kind = "select"

\* `mica.on_connection(wrappedSockets[connection])'
OnConnection(link) ==
    /\ Waiting
    /\ link \notin DOMAIN client_states
    /\ link \notin gone
    /\ Install(on_connection(Cur, link), Event("on_connection", link, <<>>, "none"))
    /\ UNCHANGED gone

\* `mica.on_text(link, text)'
OnText(link, text) ==
    /\ Waiting
    /\ link \in DOMAIN client_states
    /\ LET r == on_text(Cur, link, text) IN
       Install(r.m, Event("on_text", link, text, r.exc.type))
    /\ UNCHANGED gone

\* `mica.on_disconnection(link)'
OnDisconnection(link) ==
    /\ Waiting
    /\ link \in DOMAIN client_states
    /\ LET r == on_disconnection(Cur, link) IN
       Install(r.m, Event("on_disconnection", link, <<>>, r.exc.type))
    /\ gone' = gone \cup {link}

\* The call returned and the loop is back in sel.select(): what the call
\* wrote has gone out, and the record of the call is dropped.  An exception
\* that reached the loop has ended the process.
Select ==
    /\ ~Waiting
    /\ ev.exc = "none"
    /\ out' = [l \in Links |-> <<>>]
    /\ tr' = <<>>
    /\ ev' = Event("select", 0, <<>>, "none")
    /\ pre' = Snapshot
    /\ UNCHANGED <<db, saved, intx, client_states, connected_things,
                   commands, prefix_commands, login_commands, motd, gone>>

Next ==
    \/ \E link \in Links : OnConnection(link)
    \/ \E link \in Links, text \in Lines : OnText(link, text)
    \/ \E link \in Links : OnDisconnection(link)
    \/ Select

Spec == Init /\ [][Next]_vars

-----------------------------------------------------------------------------
(* The name resolver on its own: a program that embeds the engine calls    *)
(* Thing.resolve_many_things and Thing.resolve_one_thing on any Thing with *)
(* any text, and moves characters with Thing.move.  A call is reported in  *)
(* ev (link is the Thing, text is the argument) and its outcome in the one *)
(* step of tr: h is the exception raised or "none", text is the list       *)
(* returned (the Thing returned, for resolve_one_thing) and res tells a    *)
(* list from None.                                                         *)

\* the token "#" followed by the decimal digits of n
Hash(n) == <<"#">> \o IntToStr(n)

\* texts that begin with "#" and do not continue with a number
Malformed == {<<"#">>, <<"#", "x">>, <<"#", "4", "x">>, <<"#", "x", "4">>, <<"#", "#", "4">>}

\* texts that are not "me", not "here" and do not begin with "#"
NameTokens ==
    {s_One, s_Alice, s_Hall, s_north, s_home, <<"o", "m", "e">>,
     <<"N">>, <<"e">>, <<"n", "e">>, <<"a", "l", "i", "c", "e">>}

\* the texts the resolver is called with
Tokens ==
    {s_me, SP \o s_me, s_me \o SP, s_here, <<>>}
        \cup {Hash(n) : n \in 0..(Len(db.things) + 1)}
        \cup {<<"#", "0">> \o IntToStr(n) : n \in 1..Len(db.things)}
        \cup Malformed \cup NameTokens

\* `thing.resolve_many_things(text)'
ResolveMany(self, thing) ==
    /\ Waiting
    /\ LET r == resolve_many_things(Cur, self, thing) IN
       Install(Note(r.m, "resolve_many_things", r.exc.type,
                    IF r.exc = NoExc THEN r.val.items ELSE <<>>,
                    IF r.exc = NoExc /\ r.val.none THEN "None" ELSE "list"),
               Event("resolve_many_things", self, thing, "none"))
    /\ UNCHANGED gone

\* `thing.resolve_one_thing(text)'
ResolveOne(self, thing) ==
    /\ Waiting
    /\ LET r == resolve_one_thing(Cur, self, thing) IN
       Install(Note(r.m, "resolve_one_thing", r.exc.type,
                    IF r.exc = NoExc THEN <<r.val>> ELSE <<>>, "Thing"),
               Event("resolve_one_thing", self, thing, "none"))
    /\ UNCHANGED gone

\* `character.move(to_thing)' followed by `mica._commitdb()'
MoveCharacter(self, to_thing) ==
    /\ Waiting
    /\ is_character(Cur, self)
    /\ Install(_commitdb(move(Cur, self, to_thing)), Event("move", self, <<>>, "none"))
    /\ UNCHANGED gone

ResolverNext ==
    \/ \E self \in DOMAIN db.things, thing \in Tokens : ResolveMany(self, thing)
    \/ \E self \in DOMAIN db.things, thing \in Tokens : ResolveOne(self, thing)
    \/ \E self \in DOMAIN db.things, to_thing \in DOMAIN db.things :
          MoveCharacter(self, to_thing)
    \/ Select

ResolverSpec == Init /\ [][ResolverNext]_vars

-----------------------------------------------------------------------------
(* The properties of Things on their own, as src/test_Thing.py uses them:  *)
(* a program sets and deletes properties of any Thing.  A call is reported *)
(* in ev (link is the Thing, text is the key); for a __setitem__ the one   *)
(* entry of tr holds the value: h is its Python type and text its str().   *)

\* the keys and the values the calls are made with: the key and the int
\* that get_permission stores, the key of do_probe, the values do_set can
\* store
Keys == {s_mark, s_privilege_level}
Values == {PyStr(<<>>), PyStr(<<"x">>), PyInt(PERMISSION_GUEST)}

\* `thing[key] = value'
SetItem(t, key, value) ==
    /\ Waiting
    /\ Install([Thing_setitem(Cur, t, key, value) EXCEPT
                   !.tr = <<[op |-> "setitem", h |-> value.t, text |-> SqlText(value), res |-> ""]>>],
               Event("setitem", t, key, "none"))
    /\ UNCHANGED gone

\* `del thing[key]'
DelItem(t, key) ==
    /\ Waiting
    /\ LET r == Thing_delitem(Cur, t, key) IN
       Install([r.m EXCEPT !.tr = <<>>], Event("delitem", t, key, r.exc.type))
    /\ UNCHANGED gone

PropertyNext ==
    \/ \E t \in DOMAIN db.things \cap 1..2, key \in Keys, value \in Values : SetItem(t, key, value)
    \/ \E t \in DOMAIN db.things \cap 1..2, key \in Keys : DelItem(t, key)
    \/ Select

PropertySpec == Init /\ [][PropertyNext]_vars

-----------------------------------------------------------------------------
(* Accounts on their own: a program creates accounts, renames Things and   *)
(* sets passwords.  A call is reported in ev: link is the Thing renamed or *)
(* the account, text the name or the password, exc the exception raised.   *)

MaxAccounts == 3
MaxRenamed == 4

\* the names and the passwords the calls are made with
Names == {s_Alice, s_Bob}
Passwords == {s_hunter2, s_wrong}

\* `mica.add_account(name, password)'
AddAccount(name, password, k) ==
    /\ Waiting
    /\ Len(db.accounts) < MaxAccounts
    /\ LET r == add_account(Cur, name, password, k) IN
       Install([r.m EXCEPT !.tr = <<>>], Event("add_account", r.val, name, r.exc.type))
    /\ UNCHANGED gone

\* `thing.set_name(newname)'
SetName(t, newname) ==
    /\ Waiting
    /\ LET r == set_name(Cur, t, newname) IN
       Install([r.m EXCEPT !.tr = <<>>], Event("set_name", t, newname, r.exc.type))
    /\ UNCHANGED gone

\* `account.set_password(password)'
SetPassword(acct, password, k) ==
    /\ Waiting
    /\ Install([set_password(Cur, acct, password, k) EXCEPT !.tr = <<>>],
               Event("set_password", acct, password, "none"))
    /\ UNCHANGED gone

AccountNext ==
    \/ \E name \in Names, password \in Passwords, k \in 1..NumSalts :
          AddAccount(name, password, k)
    \/ \E t \in DOMAIN db.things \cap 1..MaxRenamed, newname \in Names : SetName(t, newname)
    \/ \E acct \in DOMAIN db.accounts, password \in Passwords, k \in 1..NumSalts :
          SetPassword(acct, password, k)
    \/ Select

AccountSpec == Init /\ [][AccountNext]_vars

-----------------------------------------------------------------------------
(* Properties.  A state with ev.kind # "select" is the state in which a    *)
(* call of the engine returned: ev names the call, pre is the store and    *)
(* the session tables as they were before it, out is what it wrote to each *)
(* link and tr is the sequence of its steps.                               *)

\* link was connected and not logged in when the call began
Unauthenticated(link) ==
    link \in DOMAIN pre.client_states /\ pre.client_states[link] = -1

\* link was logged in when the call began
Authenticated(link) ==
    link \in DOMAIN pre.client_states /\ pre.client_states[link] # -1

\* the steps of the call that are an op
Steps(op) == {k \in DOMAIN tr : tr[k].op = op}

\* the machine as it was before the call
Before ==
    [db |-> pre.db, saved |-> pre.saved, intx |-> pre.intx,
     client_states |-> pre.client_states, connected_things |-> pre.connected_things,
     commands |-> commands, prefix_commands |-> prefix_commands,
     login_commands |-> login_commands,
     motd |-> motd,
     out |-> [l \in Links |-> <<>>], tr |-> <<>>]

\* nothing of the store or of the session tables changed
NothingChanged ==
    /\ db = pre.db
    /\ saved = pre.saved
    /\ intx = pre.intx
    /\ client_states = pre.client_states
    /\ connected_things = pre.connected_things

\* the call wrote msgs to link and nothing to any other link
OnlyWrote(link, msgs) == out = [l \in Links |-> IF l = link THEN msgs ELSE <<>>]

\* The line of an authenticated link went to a handler that wrote to the
\* store and then raised CommandProcessingError: the last handler to
\* return is the one the line was dispatched to.
WroteThenRaisedCPE ==
    /\ ev.kind = "on_text"
    /\ Authenticated(ev.link)
    /\ Steps("ret") # {}
    /\ \E j \in Steps("ret") :
          /\ \A k \in Steps("ret") : k <= j
          /\ tr[j].res = "CommandProcessingError"
          /\ \E i \in Steps("write") : i < j

\* C1: when a handler dispatched through call_command writes to the store
\* and then raises CommandProcessingError, the store after on_text returns
\* is the store as it was before the line was delivered.
C1_RollbackRestoresStore ==
    WroteThenRaisedCPE => db = pre.db /\ saved = pre.saved /\ ~intx

\* the handler probe wrote the property `mark' and raised
\* CommandProcessingError with one argument, which was written to the link
C1_Witness ==
    /\ WroteThenRaisedCPE
    /\ ev.text = Words(<<s_probe, <<"1">>>>)
    /\ OnlyWrote(ev.link, <<line(Text("", <<s_probe>>))>>)

\* C2: every handler the dispatcher selects runs inside call_command, and
\* every call of call_command ends with exactly one resolution of the
\* store, a commit after a normal return and a rollback after an exception
\* of any kind, which does not leave call_command.
C2_OneResolutionPerCall ==
    ev.kind = "on_text" =>
        /\ \A k \in Steps("prefix") \cup Steps("command") :
              k < Len(tr) /\ tr[k + 1].op = "call" /\ tr[k + 1].h = tr[k].h
        /\ \A k \in Steps("ret") :
              /\ k < Len(tr)
              /\ tr[k + 1].op = IF tr[k].res = "none" THEN "commit" ELSE "rollback"
        /\ \A k \in Steps("commit") \cup Steps("rollback") : k > 1 /\ tr[k - 1].op = "ret"
        /\ Cardinality(Steps("call")) = Cardinality(Steps("ret"))
        /\ Steps("call") # {} => ev.exc = "none"

\* a handler called another through on_text and both calls were resolved,
\* the inner one first
C2_Witness ==
    /\ ev.kind = "on_text"
    /\ Authenticated(ev.link)
    /\ Cardinality(Steps("ret")) = 2
    /\ Cardinality(Steps("commit")) = 2

\* C3: when on_connection, on_text or on_disconnection returns to the event
\* loop, no mutation of the store is pending.
C3_NothingPending ==
    ev.kind \in {"on_connection", "on_text", "on_disconnection"} => ~intx

\* the words after "connect " in the line of the call
ConnectArgs(text) == split(Drop(text, Len(s_connect) + 1))

\* the line is `connect' followed by a space
IsConnectLine(text) == Take(text, Len(s_connect) + 1) = s_connect \o SP

\* the accounts of the store before the call whose character is named name
Named(name) ==
    {a \in DOMAIN pre.db.accounts :
        pre.db.things[pre.db.accounts[a].character_id].name = name}

\* password is the password of account a in the store before the call
Verifies(a, password) ==
    b64decode(pre.db.accounts[a].password)
        = _hash(encode_utf8(password), b64decode(pre.db.accounts[a].salt))

\* the accounts the line's two words name and open
Credentials(text) ==
    IF Len(ConnectArgs(text)) # 2 THEN {}
    ELSE {a \in Named(ConnectArgs(text)[1]) : Verifies(a, ConnectArgs(text)[2])}

\* C4: a connect line of an unauthenticated link logs the link in as the
\* account's character, in both session tables, exactly when its two words
\* are the name of an account's character and that account's password;
\* otherwise the link stays unauthenticated, the reverse index is
\* unchanged and one failure message is written to the link.
C4_LoginIffCredentials ==
    (ev.kind = "on_text" /\ Unauthenticated(ev.link) /\ IsConnectLine(ev.text)) =>
        IF Credentials(ev.text) # {}
        THEN \E a \in Credentials(ev.text) :
                /\ client_states[ev.link] = pre.db.accounts[a].character_id
                /\ pre.db.accounts[a].character_id \in DOMAIN connected_things
                /\ connected_things[pre.db.accounts[a].character_id] = ev.link
        ELSE /\ client_states[ev.link] = -1
             /\ connected_things = pre.connected_things
             /\ \/ OnlyWrote(ev.link, <<line(Text("badLogin", <<>>))>>)
                \/ OnlyWrote(ev.link, <<line(Text("cmdSyntax", <<s_connect>>))>>)

\* Alice logged in with her name and her password
C4_Witness ==
    /\ ev.kind = "on_text"
    /\ Unauthenticated(ev.link)
    /\ ev.text = Words(<<s_connect, s_Alice, s_hunter2>>)
    /\ Credentials(ev.text) # {}
    /\ client_states[ev.link] = 3

\* a login attempt with the name of an account and a wrong password
WrongPassword(text) ==
    /\ IsConnectLine(text)
    /\ Len(ConnectArgs(text)) = 2
    /\ Named(ConnectArgs(text)[1]) # {}
    /\ Credentials(text) = {}

\* a login attempt with a name no account has
NoSuchAccount(text) ==
    /\ IsConnectLine(text)
    /\ Len(ConnectArgs(text)) = 2
    /\ Named(ConnectArgs(text)[1]) = {}

\* C5: from the same state, a login attempt with a wrong password and one
\* with an unknown name write the same output to the link and nothing to
\* any other link, and leave the session tables and the store in the same
\* state.
C5_FailedLoginsAlike ==
    (ev.kind = "on_text" /\ Unauthenticated(ev.link) /\ WrongPassword(ev.text)) =>
        /\ \A l \in Links \ {ev.link} : out[l] = <<>>
        /\ \A text \in Lines :
              NoSuchAccount(text) =>
                  /\ on_text(Before, ev.link, text).exc.type = ev.exc
                  /\ on_text(Before, ev.link, text).m.out = out
                  /\ on_text(Before, ev.link, text).m.client_states = client_states
                  /\ on_text(Before, ev.link, text).m.connected_things = connected_things
                  /\ on_text(Before, ev.link, text).m.db = db
                  /\ on_text(Before, ev.link, text).m.saved = saved
                  /\ on_text(Before, ev.link, text).m.intx = intx

\* a wrong password for One was refused, and an attempt with the unknown
\* name Bob was possible in the same state
C5_Witness ==
    /\ ev.kind = "on_text"
    /\ Unauthenticated(ev.link)
    /\ ev.text = Words(<<s_connect, s_One, s_wrong>>)
    /\ WrongPassword(ev.text)
    /\ NoSuchAccount(Words(<<s_connect, s_Bob, s_wrong>>))
    /\ out[ev.link] = <<line(Text("badLogin", <<>>))>>

Bystanders(char) ==
    {pre.connected_things[t] : t \in
        {x \in DOMAIN pre.connected_things :
            \/ x = pre.db.things[char].location_id
            \/ pre.db.things[x].location_id = pre.db.things[char].location_id}}

\* C7: after on_disconnection(link) the link is in neither session table;
\* if it was logged in, the departure of its character was written to the
\* connected Things of the character's location, as the tables were before
\* the removal.
C7_DisconnectionForgetsLink ==
    ev.kind = "on_disconnection" =>
        /\ ev.exc = "none"
        /\ ev.link \notin DOMAIN client_states
        /\ \A t \in DOMAIN connected_things : connected_things[t] # ev.link
        /\ Authenticated(ev.link) =>
              out = [l \in Links |->
                        IF l \in Bystanders(pre.client_states[ev.link])
                        THEN <<line(Text("characterDisconnected",
                                   <<pre.db.things[pre.client_states[ev.link]].name>>))>>
                        ELSE <<>>]

\* a logged-in link disconnected and another link was told so
C7_Witness ==
    /\ ev.kind = "on_disconnection"
    /\ Authenticated(ev.link)
    /\ \E l \in Links \ {ev.link} : out[l] # <<>>
    /\ out[ev.link] # <<>>

\* the registered prefixes the line of the call starts with
PrefixHits == {k \in DOMAIN prefix_commands : matches_prefix(prefix_commands[k], ev.text)}

\* the registered full commands the line of the call matches
CommandHits == {k \in DOMAIN commands : matches_command(commands[k], ev.text)}

\* the first of a set of registry entries
First(S) == CHOOSE k \in S : \A j \in S : k <= j

\* C8: the line of an authenticated link goes to the first registered
\* prefix it starts with, with the untrimmed rest of the line; if there is
\* none, to the first registered full command it matches; if there is none,
\* to the movement fallback.  Only that one runs.
C8_DispatchOrder ==
    (ev.kind = "on_text" /\ Authenticated(ev.link)) =>
        /\ Len(tr) >= 1
        /\ IF PrefixHits # {}
           THEN /\ Len(tr) >= 2
                /\ tr[1] = [op |-> "prefix", h |-> prefix_commands[First(PrefixHits)].fn,
                            text |-> prefix_commands[First(PrefixHits)].name, res |-> ""]
                /\ tr[2] = [op |-> "call", h |-> prefix_commands[First(PrefixHits)].fn,
                            text |-> Drop(ev.text,
                                          Len(prefix_commands[First(PrefixHits)].name)),
                            res |-> ""]
           ELSE IF CommandHits # {}
           THEN /\ Len(tr) >= 2
                /\ tr[1] = [op |-> "command", h |-> commands[First(CommandHits)].fn,
                            text |-> commands[First(CommandHits)].name, res |-> ""]
                /\ tr[2].op = "call"
                /\ tr[2].h = commands[First(CommandHits)].fn
           ELSE tr[1] = [op |-> "fallback", h |-> "", text |-> ev.text, res |-> ""]
        /\ PrefixHits \cup CommandHits # {} =>
              /\ Steps("fallback") = {}
              /\ tr[Len(tr)].op \in {"commit", "rollback"}
              /\ Cardinality(Steps("prefix") \cup Steps("command"))
                    = Cardinality(Steps("call"))

\* in the Hall, whose exit is named ":look", the line ":look" went to the
\* handler of the prefix ":" and moved nobody
C8_Witness ==
    /\ ev.kind = "on_text"
    /\ Authenticated(ev.link)
    /\ ev.text = s_colon_look
    /\ pre.db.things[pre.client_states[ev.link]].location_id = 4
    /\ \E x \in DOMAIN pre.db.things :
          pre.db.things[x].name = s_colon_look /\ pre.db.things[x].location_id = 4
    /\ tr[1].op = "prefix"
    /\ db.things[pre.client_states[ev.link]].location_id = 4

\* the trimmed line is name, or starts with name and a space
Spells(name, text) ==
    strip(text) = name \/ Take(strip(text), Len(name) + 1) = name \o SP

\* the registered full commands the line of the call spells
Spelled == {k \in DOMAIN commands : Spells(commands[k].name, ev.text)}

\* C9: a line of an authenticated link that starts with no prefix goes to a
\* registered full command exactly when, trimmed, it is the command's name
\* or starts with the name and a space, and the handler receives the text
\* after that boundary.
C9_TrimmedLineMatches ==
    (ev.kind = "on_text" /\ Authenticated(ev.link) /\ PrefixHits = {}) =>
        IF Spelled # {}
        THEN /\ Len(tr) >= 2
             /\ tr[1] = [op |-> "command", h |-> commands[First(Spelled)].fn,
                         text |-> commands[First(Spelled)].name, res |-> ""]
             /\ tr[2] = [op |-> "call", h |-> commands[First(Spelled)].fn,
                         text |-> Drop(strip(ev.text), Len(commands[First(Spelled)].name) + 1),
                         res |-> ""]
        ELSE Steps("command") = {}

\* the line is name, or starts with name and a space
FullyTyped(name, text) == text = name \/ Take(text, Len(name) + 1) = name \o SP

\* short is a proper prefix of long
Abbreviates(short, long) == Len(short) < Len(long) /\ Take(long, Len(short)) = short

\* C10: a line that fully types a registered command name is never
\* dispatched to a shorter name registered after it that it begins with;
\* with "look" registered before "l", a fully typed "look" goes to the
\* entry "look" with the text after "look ".
C10_NoShadowByLaterShorterName ==
    (ev.kind = "on_text" /\ Authenticated(ev.link) /\ PrefixHits = {}) =>
        \A c \in DOMAIN commands :
            FullyTyped(commands[c].name, ev.text) =>
                /\ Len(tr) >= 2
                /\ tr[1].op = "command"
                /\ \A j \in DOMAIN commands :
                      (j > c /\ Abbreviates(commands[j].name, commands[c].name)) =>
                          tr[1].text # commands[j].name
                /\ (/\ commands[c].name = s_look
                    /\ \E j \in DOMAIN commands : j > c /\ commands[j].name = s_l) =>
                      /\ tr[1] = [op |-> "command", h |-> commands[c].fn,
                                  text |-> s_look, res |-> ""]
                      /\ tr[2] = [op |-> "call", h |-> commands[c].fn,
                                  text |-> Drop(ev.text, Len(s_look) + 1), res |-> ""]

\* with "look" registered before "l", the line "look me" went to the
\* entry "look"
C10_Witness ==
    /\ ev.kind = "on_text"
    /\ Authenticated(ev.link)
    /\ ev.text = Words(<<s_look, s_me>>)
    /\ \E c, j \in DOMAIN commands :
          c < j /\ commands[c].name = s_look /\ commands[j].name = s_l
    /\ tr[1].op = "command"
    /\ tr[1].text = s_look

Actor == pre.client_states[ev.link]

\* the exits of the actor's location, before the call, whose names contain
\* the trimmed line
ExitsNamed ==
    {x \in DOMAIN pre.db.things :
        /\ x # pre.db.things[Actor].location_id
        /\ pre.db.things[x].location_id = pre.db.things[Actor].location_id
        /\ pre.db.things[x].passage_to # None
        /\ Contains(strip(ev.text), pre.db.things[x].name)}

\* the line of an authenticated link matched no prefix and no full command
Unmatched ==
    /\ ev.kind = "on_text"
    /\ Authenticated(ev.link)
    /\ PrefixHits = {}
    /\ CommandHits = {}

\* C12: an authenticated line that matches no prefix, no full command and
\* no exit of the actor's location writes the one not-understood message to
\* its link and nothing to any other link, runs no handler, moves nobody,
\* changes neither the store nor the session tables and does not raise.
C12_UnmatchedLineNotUnderstood ==
    (Unmatched /\ ExitsNamed = {}) =>
        /\ ev.exc = "none"
        /\ OnlyWrote(ev.link, <<line(Text("cmd404", <<>>))>>)
        /\ NothingChanged
        /\ Steps("call") = {}
        /\ Steps("moved") = {}

\* in the Nexus, which has exits, the line "ook" named none of them and
\* was not understood
C12_Witness ==
    /\ Unmatched
    /\ ev.text = <<"o", "o", "k">>
    /\ \E x \in DOMAIN pre.db.things :
          /\ pre.db.things[x].location_id = pre.db.things[Actor].location_id
          /\ pre.db.things[x].passage_to # None
    /\ ExitsNamed = {}
    /\ out[ev.link] = <<line(Text("cmd404", <<>>))>>

\* the calls of the look handler made during the call
LookCalls == {k \in Steps("call") : tr[k].h = "do_look"}

\* C13: when an authenticated line matches no command and the name of
\* exactly one exit of the actor's location contains the trimmed line,
\* then when on_text returns the actor's location, in the store and as
\* committed, is that exit's destination, and look has run once for the
\* mover; for every actor.
C13_TraversalPersistsAndLooks ==
    (Unmatched /\ Cardinality(ExitsNamed) = 1) =>
        /\ \A x \in ExitsNamed :
              /\ db.things[Actor].location_id = pre.db.things[x].passage_to
              /\ saved.things[Actor].location_id = pre.db.things[x].passage_to
        /\ Cardinality(LookCalls) = 1
        /\ ev.exc = "none"

\* the bootstrap character went through "north gate" and the move was
\* committed by the look that followed
C13_BootstrapMoved ==
    /\ Unmatched
    /\ ev.text = s_north_gate
    /\ Actor = 1
    /\ Cardinality(ExitsNamed) = 1
    /\ pre.db.things[1].location_id = 2
    /\ saved.things[1].location_id = 4

\* C14: when the trimmed line of the movement fallback is contained in the
\* names of two or more exits of the actor's location, nobody moves, look
\* is not run, the store and the session tables are unchanged, and the one
\* ambiguity message is written to the link and nothing to any other link.
C14_AmbiguousExitMovesNobody ==
    (Unmatched /\ Cardinality(ExitsNamed) >= 2) =>
        /\ ev.exc = "none"
        /\ NothingChanged
        /\ Steps("moved") = {}
        /\ Steps("call") = {}
        /\ OnlyWrote(ev.link, <<line(Text("triedToGoAmbiguousWay", <<>>))>>)

\* in the Nexus, with the exits "north" and "north gate" and a second
\* character present and connected, the line "nort" was refused as
\* ambiguous
C14_Witness ==
    /\ Unmatched
    /\ ev.text = s_nort
    /\ Cardinality(ExitsNamed) = 2
    /\ \E t \in DOMAIN pre.connected_things :
          t # Actor /\ pre.db.things[t].location_id = pre.db.things[Actor].location_id
    /\ out[ev.link] = <<line(Text("triedToGoAmbiguousWay", <<>>))>>
    /\ db.things[Actor].location_id = pre.db.things[Actor].location_id

\* the location of the actor before the call
FormerLocation == pre.db.things[Actor].location_id

\* the links of the connected Things other than the actor that were in
\* room, or were room, before the call
Occupants(room) ==
    {pre.connected_things[t] : t \in
        {x \in DOMAIN pre.connected_things :
            /\ x # Actor
            /\ x = room \/ pre.db.things[x].location_id = room}}

\* the message of a departure towards toloc and of an arrival in it
Departure(toloc) ==
    line(Text("characterDeparts",
              <<pre.db.things[Actor].name \o <<" ", "[">> \o IntToStr(Actor) \o <<"]">>,
                pre.db.things[toloc].name>>))

Arrival ==
    line(Text("characterArrives",
              <<pre.db.things[Actor].name \o <<" ", "[">> \o IntToStr(Actor) \o <<"]">>,
                pre.db.things[FormerLocation].name>>))

\* the steps of the call at which h went out
Told(h) == {k \in Steps("tell") : tr[k].h = h}

\* the steps of the call at which a location was rewritten
Rewrites == {k \in Steps("moved") : k > 1 /\ tr[k - 1].op = "write" /\ tr[k - 1].h = "things"}

\* C15: when the actor goes through an exit, the departure goes out before
\* the location is rewritten, to the links of the connected Things of the
\* former location, and the arrival after it, to those of the destination;
\* the actor's link gets neither, and no other link gets anything else.
C15_DepartureBeforeArrivalAfter ==
    (Unmatched /\ Cardinality(ExitsNamed) = 1) =>
        \A x \in ExitsNamed :
            /\ Cardinality(Told("characterDeparts")) = 1
            /\ Cardinality(Told("characterArrives")) = 1
            /\ Cardinality(Rewrites) = 1
            /\ \A d \in Told("characterDeparts"), w \in Rewrites,
                  a \in Told("characterArrives") : d < w /\ w < a
            /\ \A l \in Links \ {ev.link} :
                  out[l] = (IF l \in Occupants(FormerLocation)
                            THEN <<Departure(pre.db.things[x].passage_to)>> ELSE <<>>)
                           \o (IF l \in Occupants(pre.db.things[x].passage_to)
                               THEN <<Arrival>> ELSE <<>>)
            /\ \A i \in DOMAIN out[ev.link] :
                  /\ out[ev.link][i] # Departure(pre.db.things[x].passage_to)
                  /\ out[ev.link][i] # Arrival

\* the bootstrap character left the Nexus through "north gate": the other
\* link, whose character stayed in the Nexus, was told of the departure
\* only
C15_Witness ==
    /\ Unmatched
    /\ ev.text = s_north_gate
    /\ Actor = 1
    /\ Cardinality(ExitsNamed) = 1
    /\ FormerLocation = 2
    /\ \E l \in Links \ {ev.link} : out[l] = <<Departure(4)>>
    /\ db.things[1].location_id = 4

\* the bootstrap character came back from the Hall: the other link, whose
\* character was in the Nexus, was told of the arrival only
C15_ArrivalSeen ==
    /\ Unmatched
    /\ Actor = 1
    /\ Cardinality(ExitsNamed) = 1
    /\ FormerLocation = 4
    /\ \E l \in Links \ {ev.link} : out[l] = <<Arrival>>
    /\ db.things[1].location_id = 2

\* the outcome of a call of the resolver: the last step of the call
Outcome == tr[Len(tr)]

\* a call of method returned, or raised, in this state
Called(method) == ev.kind = method /\ Len(tr) >= 1 /\ Outcome.op = method

\* a list of Things returned by resolve_many_things
Returned(items) ==
    [op |-> "resolve_many_things", h |-> "none", text |-> items, res |-> "list"]

\* the Things inside t, and t and its location, whose names contain token
Near(t, token) ==
    {x \in DOMAIN db.things :
        /\ \/ x = t
           \/ x = db.things[t].location_id
           \/ db.things[x].location_id = t
        /\ Contains(token, db.things[x].name)}

\* C16: from the point of view of any Thing, the text "me", with or
\* without spaces around it, resolves to exactly one candidate, that Thing,
\* without an error and without a change of the store, whatever the
\* Thing's location and contents and whichever names contain "me".
C16_MeIsTheActor ==
    (Called("resolve_many_things") /\ strip(ev.text) = s_me) =>
        /\ Outcome = Returned(<<ev.link>>)
        /\ db = pre.db

\* One, carrying the Thing "home" whose name contains "me", resolved "me"
\* to itself
C16_Witness ==
    /\ Called("resolve_many_things")
    /\ ev.text = s_me
    /\ ev.link = 1
    /\ \E x \in Near(1, s_me) : x # 1 /\ db.things[x].location_id = 1
    /\ Outcome.text = <<1>>

FourSets(a) ==
    {x \in DOMAIN db.things :
        \/ x = a
        \/ x = db.things[a].location_id
        \/ db.things[x].location_id = a
        \/ db.things[x].location_id = db.things[a].location_id}

\* the Things a sequence lists
Listed(items) == {items[k] : k \in DOMAIN items}

\* C18: for a text that is not "me", "here" or a "#" form, the candidates
\* are the Things whose names contain the text among the actor, its
\* location, the Things inside the actor and the Things inside its
\* location; another Thing standing in the actor's location is a candidate.
C18_FourCandidateSets ==
    (Called("resolve_many_things") /\ ev.text \in NameTokens) =>
        /\ Outcome.h = "none"
        /\ Outcome.res = "list"
        /\ Listed(Outcome.text)
              = {x \in FourSets(ev.link) : Contains(ev.text, db.things[x].name)}

\* how often x is listed in items
Times(x, items) == Cardinality({k \in DOMAIN items : items[k] = x})

\* the Thing of the call is its own location and nothing inside it has the
\* Thing's name in its name
AloneInItself ==
    /\ db.things[ev.link].location_id = ev.link
    /\ \A x \in DOMAIN db.things :
          (x # ev.link /\ db.things[x].location_id = ev.link) =>
              ~Contains(db.things[ev.link].name, db.things[x].name)

\* C19: resolve_one_thing returns a Thing exactly when resolve_many_things
\* yields one candidate, and returns that candidate; without a candidate it
\* raises NotEnoughResultsException and with more than one
\* TooManyResultsException.  A Thing listed twice counts twice: the name of
\* a Thing that is its own location is listed twice and is ambiguous.
C19_OneWrapsMany ==
    /\ Called("resolve_one_thing") =>
          With(resolve_many_things(Before, ev.link, ev.text), LAMBDA many :
              /\ db = pre.db
              /\ IF many.exc # NoExc THEN Outcome.h = many.exc.type
                 ELSE IF many.val.none \/ Len(many.val.items) = 0
                 THEN Outcome.h = "NotEnoughResultsException"
                 ELSE IF Len(many.val.items) = 1
                 THEN Outcome.h = "none" /\ Outcome.text = <<many.val.items[1]>>
                 ELSE Outcome.h = "TooManyResultsException")
    /\ (Called("resolve_one_thing") /\ ev.text = db.things[ev.link].name /\ AloneInItself) =>
          Outcome.h = "TooManyResultsException"
    /\ (Called("resolve_many_things") /\ ev.text = db.things[ev.link].name /\ AloneInItself) =>
          Outcome = Returned(<<ev.link, ev.link>>)

\* One had been moved into itself: "One" from its point of view was
\* refused as ambiguous, One being listed as the actor and as its location
C19_Witness ==
    /\ Called("resolve_one_thing")
    /\ ev.link = 1
    /\ ev.text = s_One
    /\ db.things[1].location_id = 1
    /\ Times(1, resolve_many_things(Before, 1, s_One).val.items) = 2
    /\ Outcome.h = "TooManyResultsException"

\* the handlers that require BUILDER or WIZARD
Gated == {"do_jump", "do_make", "do_build", "do_open", "do_set", "do_exam"}

\* the privilege_level rows of the actor in the store before the call
LevelRows ==
    {k \in DOMAIN pre.db.properties :
        /\ pre.db.properties[k].object_id = Actor
        /\ pre.db.properties[k].name = s_privilege_level}

\* the actor is not the bootstrap character and its level is GUEST: none
\* is stored, or the stored one is GUEST
Guest ==
    /\ Actor # 1
    /\ \A k \in LevelRows : pre.db.properties[k].val = IntToStr(PERMISSION_GUEST)

\* the line of a GUEST went to a handler that requires more
GuestCalledGated ==
    /\ ev.kind = "on_text"
    /\ Authenticated(ev.link)
    /\ Guest
    /\ Len(tr) >= 2
    /\ tr[1].op \in {"prefix", "command"}
    /\ tr[1].h \in Gated

\* C20: when a GUEST invokes a command that requires BUILDER or WIZARD, its
\* link receives the permission error and no other link receives anything,
\* the store is as it was before, without a newly stored level, and the
\* handler did nothing but the check.
C20_GuestRejected ==
    GuestCalledGated =>
        /\ ev.exc = "none"
        /\ OnlyWrote(ev.link, <<line(Text("noPermission", <<>>))>>)
        /\ db = pre.db
        /\ saved = pre.saved
        /\ Cardinality(Steps("call")) = 1
        /\ Steps("moved") = {}

\* what does hold of a GUEST's gated command: nothing is written to any
\* other link and the store and the session tables are as they were
C20_GuestChangesNothing ==
    GuestCalledGated =>
        /\ ev.exc = "none"
        /\ \A l \in Links \ {ev.link} : out[l] = <<>>
        /\ NothingChanged
        /\ Cardinality(Steps("call")) = 1
        /\ Steps("moved") = {}

\* Alice, whose level the login look had stored, typed "jump #4"
C20_AliceJumped ==
    /\ GuestCalledGated
    /\ Actor = 3
    /\ ev.text = Words(<<s_jump, Hash(4)>>)
    /\ LevelRows # {}
    /\ tr[1].h = "do_jump"

\* the character the link of the call is logged in as when the call returns
Char == client_states[ev.link]

\* the handlers that begin with check_permission
Checked ==
    {"do_look", "do_say", "do_pose", "do_inventory", "do_jump", "do_make",
     "do_build", "do_open", "do_set", "do_exam"}

\* the privilege_level rows of thing t in a store
LevelRowsOf(store, t) ==
    {k \in DOMAIN store.properties :
        /\ store.properties[k].object_id = t
        /\ store.properties[k].name = s_privilege_level}

\* the call ran a command for a character other than the bootstrap one
\* that had no stored level: the command's check read the level for the
\* first time
FirstRead ==
    /\ ev.kind = "on_text"
    /\ ev.link \in DOMAIN client_states
    /\ Char \notin {-1, 1}
    /\ LevelRowsOf(pre.db, Char) = {}
    /\ \E k \in Steps("call") : tr[k].h \in Checked

\* the store holds the GUEST level of thing t, pending or committed
HoldsGuest(store, t) ==
    /\ LevelRowsOf(store, t) # {}
    /\ \A k \in LevelRowsOf(store, t) : store.properties[k].val = IntToStr(PERMISSION_GUEST)

\* C21: after a command that read the level of a non-bootstrap character
\* for the first time, the store holds, committed, the GUEST level of that
\* character, whether the command succeeded or was rejected.
C21_DefaultLevelPersisted ==
    FirstRead => HoldsGuest(db, Char) /\ HoldsGuest(saved, Char)

\* what holds: the default is stored exactly when the command that read it
\* returned normally, and is lost with the rollback otherwise
C21_PersistedIffCommitted ==
    FirstRead =>
        IF \E k \in Steps("ret") : tr[k].res = "none"
        THEN HoldsGuest(db, Char) /\ HoldsGuest(saved, Char)
        ELSE LevelRowsOf(db, Char) = {} /\ LevelRowsOf(saved, Char) = {}

\* Alice's first command was "jump": it was refused with the permission
\* error and her level is not in the store
C21_RejectedFirstRead ==
    /\ FirstRead
    /\ Char = 3
    /\ ev.text = s_jump
    /\ OnlyWrote(ev.link, <<line(Text("noPermission", <<>>))>>)
    /\ LevelRowsOf(db, 3) = {}

\* the bootstrap character, logged in, typed a line that ran a handler
\* beginning with check_permission
BootstrapChecked ==
    /\ ev.kind = "on_text"
    /\ ev.link \in DOMAIN pre.client_states
    /\ pre.client_states[ev.link] = 1
    /\ \E k \in Steps("call") : tr[k].h \in Checked

\* the values of the privilege_level rows of thing t in a store
LevelsOf(store, t) == {store.properties[k].val : k \in LevelRowsOf(store, t)}

\* C22: the bootstrap character passes the permission check of every
\* command whatever is stored as its level: its command is never refused
\* for permission and never fails comparing the level, and the check writes
\* nothing: only "set" writes a property, and the stored level is as before.
C22_BootstrapAlwaysPasses ==
    BootstrapChecked =>
        /\ \A k \in DOMAIN out[ev.link] :
              out[ev.link][k] # line(Text("noPermission", <<>>))
        /\ \A k \in Steps("ret") : tr[k].res # "TypeError"
        /\ (\A k \in Steps("call") : tr[k].h # "do_set")
              => \A k \in Steps("write") : tr[k].h # "properties"
        /\ LevelsOf(db, 1) = LevelsOf(pre.db, 1)

\* the bootstrap character, with the level 5 stored, below GUEST, looked
\* and the command returned normally
C22_Witness ==
    /\ BootstrapChecked
    /\ LevelsOf(pre.db, 1) = {<<"5">>}
    /\ \E k \in Steps("call") : tr[k].h = "do_look"
    /\ \A k \in Steps("ret") : tr[k].res = "none"
    /\ LevelsOf(saved, 1) = {<<"5">>}

\* the bootstrap character, which passes every permission check, typed a
\* line that ran do_exam: the handler resolves the rest of the line through
\* pov_get_thing_by_name and can fail nowhere else
BootstrapExamined ==
    /\ ev.kind = "on_text"
    /\ ev.link \in DOMAIN pre.client_states
    /\ pre.client_states[ev.link] = 1
    /\ \E k \in Steps("call") : tr[k].h = "do_exam"

\* the text do_exam resolved: the line after the command name, stripped
Examined == strip(SubSeq(ev.text, Len(s_ex) + 1, Len(ev.text)))

\* the messages of a failed resolution
ResolutionErrors ==
    {<<line(Text("thing404", <<Examined>>))>>, <<line(Text("thingOverflow", <<>>))>>}

\* the resolution failed as a CommandProcessingError with one message
FailedAsCPE ==
    /\ \A k \in Steps("ret") : tr[k].res = "CommandProcessingError"
    /\ \E msgs \in ResolutionErrors : OnlyWrote(ev.link, msgs)

\* C23: a resolution through pov_get_thing_by_name, whatever the token,
\* returns a Thing or reaches call_command as a CommandProcessingError with
\* one formatted message, never as another exception.
C23_ResolutionFailsOnlyAsCPE ==
    BootstrapExamined =>
        \/ \A k \in Steps("ret") : tr[k].res = "none"
        \/ FailedAsCPE

\* what holds: the same for every token that is not empty once stripped
C23_NonEmptyTokenFailsOnlyAsCPE ==
    BootstrapExamined /\ Examined # <<>> =>
        \/ \A k \in Steps("ret") : tr[k].res = "none"
        \/ FailedAsCPE

\* an empty token leaves do_exam as IndexError
C23_EmptyTokenIndexError ==
    /\ BootstrapExamined
    /\ Examined = <<>>
    /\ \E k \in Steps("ret") : tr[k].res = "IndexError"

\* an ambiguous token was refused with the overflow message
C23_AmbiguousRefused ==
    /\ BootstrapExamined
    /\ OnlyWrote(ev.link, <<line(Text("thingOverflow", <<>>))>>)

\* a missing Thing was refused with the not-found message
C23_MissingRefused ==
    /\ BootstrapExamined
    /\ OnlyWrote(ev.link, <<line(Text("thing404", <<<<"#", "9">>>>))>>)

\* a handler run for the line of an authenticated link raised
HandlerRaised ==
    /\ ev.kind = "on_text"
    /\ Authenticated(ev.link)
    /\ \E k \in Steps("ret") : tr[k].res # "none"

\* the line was dispatched to a command and the handler it was dispatched
\* to, the last to return, raised
DispatchedHandlerRaised ==
    /\ HandlerRaised
    /\ tr[1].op \in {"prefix", "command"}
    /\ \A k \in Steps("ret") : (\A j \in Steps("ret") : j <= k) => tr[k].res # "none"

\* C24: an error raised by a handler ends no session: on_text returns
\* normally and the session tables are as before; when the handler the
\* line was dispatched to raised, the transaction is rolled back once, the
\* store is the committed one, the originating link receives the error
\* output and no other link receives anything.
C24_ErrorsEndNoSession ==
    /\ HandlerRaised =>
          /\ ev.exc = "none"
          /\ client_states = pre.client_states
          /\ connected_things = pre.connected_things
    /\ DispatchedHandlerRaised =>
          /\ tr[Len(tr)].op = "rollback"
          /\ db = saved
          /\ ~intx
          /\ out[ev.link] # <<>>
          /\ \A l \in Links \ {ev.link} : out[l] = <<>>

\* with two links logged in, "crash" on one of them raised Exception and
\* both sessions are as they were
C24_Witness ==
    /\ DispatchedHandlerRaised
    /\ \E k \in Steps("ret") : tr[k].res = "Exception"
    /\ \A l \in Links : l \in DOMAIN client_states /\ client_states[l] # -1
    /\ client_states = pre.client_states

\* the stored value of key on thing t in a store, <<>> wrapped, or {} when
\* there is no row
Stored(store, t, key) ==
    {store.properties[k].val : k \in {j \in DOMAIN store.properties :
        store.properties[j].object_id = t /\ store.properties[j].name = key}}

\* every key other than the one of the call, on every Thing, is as before
OtherKeysKept ==
    \A t \in DOMAIN db.things, key \in Keys \cup {s_desc} :
        (t # ev.link \/ key # ev.text) => Stored(db, t, key) = Stored(pre.db, t, key)

\* the value the call set
ValueSet ==
    IF tr[1].h = "int" THEN PyInt(StrToInt(tr[1].text)) ELSE PyStr(tr[1].text)

\* a value no call stores, used as the default of a read
Missing == PyStr(<<"?">>)

\* the properties behave as a partial map for the value set
ActsAsMap ==
    /\ ev.kind = "setitem" =>
          /\ Thing_getitem(Cur, ev.link, ev.text).exc = NoExc
          /\ Thing_getitem(Cur, ev.link, ev.text).val = ValueSet
          /\ Thing_get(Cur, ev.link, ev.text, Missing) = ValueSet
          /\ OtherKeysKept
    /\ ev.kind = "delitem" /\ ev.exc = "none" =>
          /\ Stored(pre.db, ev.link, ev.text) # {}
          /\ Thing_get(Cur, ev.link, ev.text, Missing) = Missing
          /\ OtherKeysKept
    /\ ev.kind = "delitem" /\ Stored(pre.db, ev.link, ev.text) = {} =>
          /\ ev.exc = "KeyError"
          /\ db = pre.db

\* C25: after set(k, v) a read of k returns v; after delete(k) a read with
\* a default returns the default; deleting an absent key raises KeyError
\* and changes nothing; no other key of any Thing changes.
C25_PropertiesArePartialMap == ActsAsMap

\* what holds: the same for the values that are texts, the empty one
\* included; an int comes back as its decimal text
C25_TextPropertiesArePartialMap ==
    (ev.kind = "setitem" => tr[1].h = "str") => ActsAsMap

\* the int 10 was set and the read returns the text "10"
C25_IntReadAsText ==
    /\ ev.kind = "setitem"
    /\ ValueSet = PyInt(PERMISSION_GUEST)
    /\ Thing_get(Cur, ev.link, ev.text, Missing) = PyStr(IntToStr(PERMISSION_GUEST))

\* the empty text was set on a key that was absent, and is read back
C25_EmptyStored ==
    /\ ev.kind = "setitem"
    /\ Stored(pre.db, ev.link, ev.text) = {}
    /\ Thing_get(Cur, ev.link, ev.text, Missing) = PyStr(<<>>)

\* a key that had been set was deleted while the other Thing has the key
C25_DeletedBesideAnother ==
    /\ ev.kind = "delitem"
    /\ ev.exc = "none"
    /\ ev.link = 1
    /\ Stored(db, 2, ev.text) # {}

\* the name of the character of account a in a store
CharacterName(store, a) == store.things[store.accounts[a].character_id].name

\* C26: no two accounts are bound to characters of the same name, after
\* any calls of add_account and set_name, raising or not.
C26_CharacterNamesUnique ==
    \A a, b \in DOMAIN db.accounts :
        a # b => CharacterName(db, a) # CharacterName(db, b)

\* a rename of a character to the name of another account's character was
\* refused while three accounts exist
C26_Witness ==
    /\ ev.kind = "set_name"
    /\ ev.exc = "AccountNamingException"
    /\ Len(db.accounts) = MaxAccounts
    /\ \E a \in DOMAIN db.accounts :
          db.accounts[a].character_id # ev.link /\ CharacterName(db, a) = ev.text

\* thing t was the character of an account before the call
WasCharacter(t) == \E a \in DOMAIN pre.db.accounts : pre.db.accounts[a].character_id = t

\* before the call an account with a character in chars had the name
NameUsedBy(chars, name) ==
    \E a \in DOMAIN pre.db.accounts :
        /\ pre.db.accounts[a].character_id \in chars
        /\ CharacterName(pre.db, a) = name

\* the rename was refused and nothing changed
RenameRefused == ev.exc = "AccountNamingException" /\ db = pre.db

\* the rename was done and only the name of that Thing changed
RenameDone ==
    /\ ev.exc = "none"
    /\ db = [pre.db EXCEPT !.things[ev.link].name = ev.text]

\* C27: set_name raises the naming conflict, changing nothing, exactly when
\* the Thing is an account character and the character of another account
\* has the new name; otherwise, a rename to its own name included, it
\* succeeds and changes the name of that Thing only.
C27_ConflictOnlyWithAnotherAccount ==
    ev.kind = "set_name" =>
        IF WasCharacter(ev.link) /\ NameUsedBy(DOMAIN pre.db.things \ {ev.link}, ev.text)
        THEN RenameRefused
        ELSE RenameDone

\* what holds: the rename of a character is refused when any account's
\* character has the new name, its own included
C27_ConflictWithAnyAccount ==
    ev.kind = "set_name" =>
        IF WasCharacter(ev.link) /\ NameUsedBy(DOMAIN pre.db.things, ev.text)
        THEN RenameRefused
        ELSE RenameDone

\* a character was renamed to the name it has and the call raised
C27_OwnNameRefused ==
    /\ ev.kind = "set_name"
    /\ WasCharacter(ev.link)
    /\ pre.db.things[ev.link].name = ev.text
    /\ RenameRefused

\* a Thing that is no character took the name of a character
C27_PlainThingRenamed ==
    /\ ev.kind = "set_name"
    /\ ~WasCharacter(ev.link)
    /\ NameUsedBy(DOMAIN pre.db.things, ev.text)
    /\ RenameDone

\* the plaintexts tried against an account
Candidates == Passwords \cup {s_potrzebie, <<>>}

\* the account whose password the call set: the one named, or the one
\* add_account created
PasswordSetOn ==
    IF ev.kind = "set_password" \/ (ev.kind = "add_account" /\ ev.exc = "none")
    THEN {ev.link} ELSE {}

\* C28: after set_password(p) on an account, check_password(c) is true
\* exactly for c = p, and every call leaves check_password of every other
\* account as it was: the password of an account is the plaintext of the
\* latest set_password on it.
C28_LatestPasswordOnly ==
    /\ ev.kind = "set_password" =>
          \A c \in Candidates : check_password(Cur, ev.link, c) <=> c = ev.text
    /\ ev.kind \in {"set_password", "add_account", "set_name"} =>
          \A a \in DOMAIN pre.db.accounts \ PasswordSetOn, c \in Candidates :
              check_password(Cur, a, c) <=> check_password(Before, a, c)

\* the password of an account was set again, to another plaintext and with
\* the salt of the earlier call, while another account exists
C28_Witness ==
    /\ ev.kind = "set_password"
    /\ ~check_password(Before, ev.link, ev.text)
    /\ \E c \in Passwords : check_password(Before, ev.link, c)
    /\ db.accounts[ev.link].salt = pre.db.accounts[ev.link].salt
    /\ Len(db.accounts) > 1

\* the call was a successful login with a character that is somewhere
LoginSucceeded ==
    /\ ev.kind = "on_text"
    /\ Unauthenticated(ev.link)
    /\ Char # -1
    /\ location(Cur, Char) # None

\* the arrival message of the character that logged in
Connected == line(Text("characterConnected", <<display_name(Cur, Char)>>))

\* the links of the connected Things, other than the character, that are in
\* the character's location or are that location
CoOccupantLinks ==
    {connected_things[t] : t \in {x \in DOMAIN connected_things :
        /\ x # Char
        /\ x \in DOMAIN db.things
        /\ (location(Cur, x) = location(Cur, Char) \/ x = location(Cur, Char))}}

\* each of the links got the arrival message once
ToldOnce(links) == \A l \in links : CountOf(out[l], Connected) = 1

\* none of the links got the arrival message
NotTold(links) == \A l \in links : CountOf(out[l], Connected) = 0

\* C29: a successful login writes the arrival message once to the link of
\* every other connected Thing in the character's location, and to no
\* other link: not to the connecting link, not to a Thing elsewhere.
C29_ArrivalToCoOccupantsOnly ==
    LoginSucceeded =>
        /\ ToldOnce(CoOccupantLinks)
        /\ NotTold(Links \ CoOccupantLinks)

\* what holds: the links other than the connecting one get the message
\* once if they are co-occupants and not at all otherwise, and the
\* connecting link gets it too
C29_ArrivalToEveryOccupant ==
    LoginSucceeded =>
        /\ ToldOnce(CoOccupantLinks \ {ev.link})
        /\ NotTold(Links \ (CoOccupantLinks \cup {ev.link}))
        /\ CountOf(out[ev.link], Connected) >= 1

\* Alice logged in beside the bootstrap character, and both links got the
\* arrival message
C29_BothTold ==
    /\ LoginSucceeded
    /\ Char = 3
    /\ CoOccupantLinks # {}
    /\ \A l \in Links : CountOf(out[l], Connected) = 1

\* Alice logged in while the bootstrap character was in another room, and
\* its link got nothing
C29_ElsewhereNotTold ==
    /\ LoginSucceeded
    /\ Char = 3
    /\ 1 \in DOMAIN connected_things
    /\ location(Cur, 1) # location(Cur, 3)
    /\ out[connected_things[1]] = <<>>

\* the line was dispatched to do_jump, which moved the character: the step
\* after the move is the nested call of do_look
Jumped ==
    /\ ev.kind = "on_text"
    /\ Authenticated(ev.link)
    /\ tr[1].op = "command"
    /\ tr[1].h = "do_jump"
    /\ \E k \in Steps("call") : tr[k].h = "do_look"

\* the step at which do_jump returned
JumpReturn == CHOOSE k \in Steps("ret") : tr[k].h = "do_jump"

\* the place the character jumped to
JumpedTo == StrToInt(Tail(strip(SubSeq(ev.text, Len(s_jump) + 1, Len(ev.text)))))

\* C30: the move of a jump is persisted exactly when do_jump returns
\* normally: whatever the nested look does, the move is in the store and
\* committed after a jump that returned normally and in neither after one
\* that raised, and nothing is committed before do_jump has returned.
C30_JumpKeepsItsOutcome ==
    Jumped =>
        /\ IF tr[JumpReturn].res = "none"
           THEN /\ db.things[Char].location_id = JumpedTo
                /\ saved.things[Char].location_id = JumpedTo
           ELSE /\ db.things = pre.db.things
                /\ saved.things = pre.saved.things
        /\ \A k \in Steps("commit") : k > JumpReturn

\* what holds: the nested look commits the move while do_jump is running
C30_NestedLookCommits ==
    Jumped /\ (\A k \in Steps("ret") : tr[k].res = "none") =>
        /\ Cardinality(Steps("commit")) = 2
        /\ \E k \in Steps("commit") : k < JumpReturn
        /\ saved.things[Char].location_id = JumpedTo

\* the bootstrap character jumped to the Hall
C30_JumpedToHall ==
    /\ Jumped
    /\ Char = 1
    /\ JumpedTo = 4
    /\ pre.saved.things[1].location_id # 4
    /\ saved.things[1].location_id = 4

\* the links that are logged in as thing t
LinksOf(t) == {l \in DOMAIN client_states : client_states[l] = t}

\* the reverse index has an entry for t that points to a link logged in as t
Indexed(t) ==
    /\ t \in DOMAIN connected_things
    /\ connected_things[t] \in LinksOf(t)

\* C31: every Thing that some link is logged in as has an entry in the
\* reverse index, and the entry points to a link logged in as that Thing.
C31_AuthenticatedAreIndexed ==
    \A l \in DOMAIN client_states : client_states[l] # -1 => Indexed(client_states[l])

\* what holds: a login puts the connecting link in the index
C31_LoginIndexesLink ==
    ev.kind = "on_text" /\ Unauthenticated(ev.link) /\ Char # -1 =>
        connected_things[Char] = ev.link

\* the later of two links logged in as one Thing disconnected: the other
\* link is still logged in and the index has no entry for the Thing
C31_SecondLinkGone ==
    /\ ev.kind = "on_disconnection"
    /\ \E l \in DOMAIN client_states :
          /\ client_states[l] = pre.client_states[ev.link]
          /\ client_states[l] # -1
          /\ client_states[l] \notin DOMAIN connected_things

\* a line was processed and a rollback was part of it
RolledBack == ev.kind = "on_text" /\ Steps("rollback") # {}

\* C32: a rollback reverts only what the line that caused it wrote: after
\* a line with a rollback the store is the store as it was when the line
\* arrived, with every mutation of the lines completed before it, from any
\* link.
C32_RollbackRevertsOwnLineOnly ==
    RolledBack => db = pre.db /\ saved = pre.saved

\* the bootstrap character had jumped to the Hall from one link, and a
\* line of another link was rolled back: the character is still in the Hall
C32_Witness ==
    /\ RolledBack
    /\ 1 \in DOMAIN connected_things
    /\ connected_things[1] # ev.link
    /\ 4 \in DOMAIN db.things
    /\ db.things[1].location_id = 4
    /\ \E i \in Steps("write") : \E j \in Steps("rollback") : i < j

\* C33: a link that is logged in as a Thing stays logged in as that Thing
\* through every call other than its own on_disconnection, whatever the
\* line, a further "connect" line included, and whatever a handler raises.
C33_AuthenticatedUntilDisconnected ==
    \A l \in DOMAIN pre.client_states :
        pre.client_states[l] # -1 /\ ~(ev.kind = "on_disconnection" /\ ev.link = l) =>
            /\ l \in DOMAIN client_states
            /\ client_states[l] = pre.client_states[l]

\* a link logged in as Alice sent the login line of the bootstrap
\* character, which was taken as a line of no command, and is still Alice
C33_Witness ==
    /\ ev.kind = "on_text"
    /\ Authenticated(ev.link)
    /\ pre.client_states[ev.link] = 3
    /\ ev.text = Words(<<s_connect, s_One, s_potrzebie>>)
    /\ client_states[ev.link] = 3
    /\ tr[1].op = "fallback"

\* an empty or whitespace-only line arrived from a link that is logged in
EmptyLine ==
    /\ ev.kind = "on_text"
    /\ Authenticated(ev.link)
    /\ strip(ev.text) = <<>>

\* the exits of the actor's location before the call
AllExits ==
    {x \in DOMAIN pre.db.things :
        /\ x # FormerLocation
        /\ pre.db.things[x].location_id = FormerLocation
        /\ pre.db.things[x].passage_to # None}

\* C34: an empty or whitespace-only line matches no command and goes to the
\* movement fallback as the empty string, which names every exit of the
\* actor's location: with one exit the actor is moved through it and look
\* is run, with more the ambiguity message is written, with none the
\* not-understood message.
C34_EmptyLineNamesEveryExit ==
    EmptyLine =>
        /\ tr[1].op = "fallback"
        /\ ExitsNamed = AllExits
        /\ Cardinality(AllExits) = 1 =>
              /\ Steps("moved") # {}
              /\ LookCalls # {}
              /\ (\A k \in Steps("ret") : tr[k].res = "none") =>
                    \A x \in AllExits :
                        db.things[Actor].location_id = pre.db.things[x].passage_to
        /\ Cardinality(AllExits) > 1 =>
              /\ Steps("moved") = {}
              /\ OnlyWrote(ev.link, <<line(Text("triedToGoAmbiguousWay", <<>>))>>)
        /\ AllExits = {} =>
              /\ Steps("moved") = {}
              /\ OnlyWrote(ev.link, <<line(Text("cmd404", <<>>))>>)

\* in the Hall, whose one exit leads to the Nexus, a line of two spaces
\* moved the bootstrap character to the Nexus
C34_Witness ==
    /\ EmptyLine
    /\ ev.text = SP \o SP
    /\ FormerLocation = 4
    /\ Cardinality(AllExits) = 1
    /\ db.things[Actor].location_id = 2
    /\ saved.things[Actor].location_id = 2

\* in the Nexus, with two exits, the empty line was refused as ambiguous
C34_EmptyLineAmbiguous ==
    /\ EmptyLine
    /\ ev.text = <<>>
    /\ Cardinality(AllExits) = 2
    /\ OnlyWrote(ev.link, <<line(Text("triedToGoAmbiguousWay", <<>>))>>)

\* where there is no exit the empty line was not understood
C34_EmptyLineNotUnderstood ==
    /\ EmptyLine
    /\ AllExits = {}
    /\ OnlyWrote(ev.link, <<line(Text("cmd404", <<>>))>>)

\* the level the handler's check_permission asks for
Required(h) ==
    IF h \in {"do_look", "do_say", "do_pose", "do_inventory"} THEN PERMISSION_GUEST
    ELSE IF h \in {"do_jump", "do_make", "do_build", "do_open"} THEN PERMISSION_BUILDER
    ELSE PERMISSION_WIZARD

\* the line of a character other than the bootstrap one, whose level was
\* stored before the call, went to a handler that checks a level
StoredLevelChecked ==
    /\ ev.kind = "on_text"
    /\ Authenticated(ev.link)
    /\ Actor # 1
    /\ LevelRows # {}
    /\ Len(tr) >= 3
    /\ tr[1].op \in {"prefix", "command"}
    /\ tr[1].h \in Checked

\* the level stored for the actor before the call
StoredLevel == StrToInt(pre.db.properties[CHOOSE k \in LevelRows : TRUE].val)

\* the handler the line went to left with the exception exc ("none" for a
\* normal return)
LeftWith(exc) ==
    \E k \in Steps("ret") : tr[k].h = tr[1].h /\ tr[k].res = exc /\ \A j \in Steps("ret") : j <= k

\* C35: the check compares the stored level with the required one: a
\* command at or below the stored level of a non-bootstrap character passes
\* the check, so the handler does not leave with the permission error nor
\* with a failure of the comparison, and a command above it is refused with
\* the permission error.
C35_StoredLevelCompared ==
    StoredLevelChecked =>
        IF Required(tr[1].h) <= StoredLevel
        THEN /\ ~LeftWith("TypeError")
             /\ \A k \in DOMAIN out[ev.link] :
                   out[ev.link][k] # line(Text("noPermission", <<>>))
        ELSE /\ LeftWith("CommandProcessingError")
             /\ OnlyWrote(ev.link, <<line(Text("noPermission", <<>>))>>)

\* what holds: with a level stored, every checked command of the character
\* leaves with TypeError and is rolled back
C35_StoredLevelNeverCompares ==
    StoredLevelChecked =>
        /\ LeftWith("TypeError")
        /\ db = pre.db
        /\ OnlyWrote(ev.link, <<line(Text("cmdErrUnspecified", <<>>)),
                                IF show_tracebacks THEN line(Text("err", <<<<"t", "x">>>>))
                                ELSE line(Text("err", <<>>))>>)

\* Alice, GUEST by the level her login look stored, typed "look"
C35_AliceLookedAgain ==
    /\ StoredLevelChecked
    /\ Actor = 3
    /\ StoredLevel = PERMISSION_GUEST
    /\ tr[1].h = "do_look"
    /\ LeftWith("TypeError")

\* the call was a successful login
LoggedIn ==
    /\ ev.kind = "on_text"
    /\ Unauthenticated(ev.link)
    /\ Char # -1

\* the steps at which a line was dispatched to a command, in order
RECURSIVE Dispatched(_)
Dispatched(k) ==
    IF k > Len(tr) THEN <<>>
    ELSE IF tr[k].op = "command" THEN <<tr[k].text>> \o Dispatched(k + 1)
    ELSE Dispatched(k + 1)

\* the session is marked and indexed, the login commands were dispatched
\* in list order against it, and an arrival message is the last thing
\* written to a link
LoginSteps ==
    /\ client_states[ev.link] = Char
    /\ connected_things[Char] = ev.link
    /\ Dispatched(1) = login_commands
    /\ Cardinality(Steps("call")) = Len(login_commands)
    /\ \A l \in Links :
          CountOf(out[l], Connected) > 0 => out[l][Len(out[l])] = Connected

\* the positions of the message of the day in what the link received
MotdAt == {k \in DOMAIN out[ev.link] : out[ev.link][k] = line(motd[1])}

\* C36: on a successful login the session is marked and indexed, the login
\* commands are dispatched in list order, then the message of the day is
\* written if there is one, then the arrival message is broadcast.
C36_MotdAfterLoginCommands ==
    LoggedIn =>
        /\ LoginSteps
        /\ motd # <<>> /\ login_commands # <<>> =>
              /\ Cardinality(MotdAt) = 1
              /\ \A k \in MotdAt : k > 1
              /\ \A k \in Steps("command") : \E j \in Steps("login") : k < j

\* C36 as the code has it: the message of the day, if there is one, is the
\* first thing written, before the login commands are dispatched in list
\* order against the session already marked and indexed; the arrival
\* message is broadcast last.
C36_MotdBeforeLoginCommands ==
    LoggedIn =>
        /\ LoginSteps
        /\ tr[1].op = "login"
        /\ motd # <<>> => MotdAt = {1}

\* the bootstrap character logged in where a message of the day and the
\* login commands "look" and "i" are configured
C36_Witness ==
    /\ LoggedIn
    /\ Char = 1
    /\ motd # <<>>
    /\ Dispatched(1) = <<s_look, s_i>>
    /\ MotdAt = {1}
    /\ Len(out[ev.link]) > 3
    /\ out[ev.link][Len(out[ev.link])] = Connected

\* the location and the owner of every Thing of a store are Things of it
WellPlaced(store) ==
    \A t \in DOMAIN store.things :
        /\ store.things[t].location_id \in DOMAIN store.things
        /\ store.things[t].owner_id \in DOMAIN store.things

\* the call was the disconnection of a logged-in link
LoggedOut == ev.kind = "on_disconnection" /\ Authenticated(ev.link)

\* C37: after every call, in the store as written and as committed, the
\* location and the owner of every Thing are Things that exist, so
\* location() is never None and the departure broadcast of a logged-in
\* link's disconnection does not fail.
C37_LocationAndOwnerExist ==
    /\ WellPlaced(db)
    /\ WellPlaced(saved)
    /\ \A t \in DOMAIN db.things : location(Cur, t) # None
    /\ LoggedOut => ev.exc = "none" /\ ev.link \notin DOMAIN client_states

\* the link of Alice, whose character add_account created through add_thing
\* without an owner and move put in the Nexus, was lost where the Hall,
\* another Thing created without an owner, exists
C37_Witness ==
    /\ LoggedOut
    /\ Actor = 3
    /\ db.things[3].owner_id = 3
    /\ db.things[3].location_id = 2
    /\ db.things[4].location_id = 4
    /\ db.things[4].owner_id = 4
    /\ ev.exc = "none"

\* C38: every entry of the reverse index points to a link that is in the
\* session table and is logged in as the entry's Thing; no entry points to
\* a link that is not logged in or that was disconnected.
C38_ReverseIndexConsistent ==
    \A t \in DOMAIN connected_things :
        /\ connected_things[t] \in DOMAIN client_states
        /\ client_states[connected_things[t]] = t
        /\ client_states[connected_things[t]] # -1
        /\ connected_things[t] \notin gone

\* a logged-in link was lost while another link stayed logged in: the entry
\* of the lost link is gone and the entry of the other is kept
C38_Witness ==
    /\ LoggedOut
    /\ ev.link \in gone
    /\ Actor \notin DOMAIN connected_things
    /\ \E t \in DOMAIN connected_things :
          /\ t # Actor
          /\ connected_things[t] # ev.link
          /\ pre.connected_things[t] = connected_things[t]

\* the call is the disconnection of link
DisconnectionOf(link) == ev.kind = "on_disconnection" /\ ev.link = link

\* C39: once on_disconnection(link) has returned, no later call, on
\* whatever link, writes to that link.
C39_NoWriteAfterDisconnection ==
    \A l \in gone : ~DisconnectionOf(l) => out[l] = <<>>

\* after a link was lost, a logged-in character in the Nexus, where the
\* other character of the world is too, had a line dispatched that was
\* answered, and nothing went to the lost link
C39_Witness ==
    /\ ev.kind = "on_text"
    /\ Authenticated(ev.link)
    /\ Len(db.things) = 8
    /\ FormerLocation = 2
    /\ \E k \in DOMAIN db.things : k # Actor /\ db.things[k].location_id = 2
                                             /\ k \in {1, 3}
    /\ out[ev.link] # <<>>
    /\ \E l \in gone : l # ev.link /\ out[l] = <<>>

\* C40: everything setup_db created is committed, the bootstrap account's
\* password hash and salt included, so a rollback issued now leaves the
\* bootstrap account with the password and salt it has and not with the
\* empty placeholder.
C40_SetupCommitsPassword ==
    /\ saved.accounts[1] = db.accounts[1]
    /\ rollback(Cur).db.accounts[1] = db.accounts[1]
    /\ rollback(Cur).db.accounts[1].password # b64encode(b_empty)
    /\ rollback(Cur).db.accounts[1].salt # b64encode(b_empty)

=============================================================================
